---- MODULE Spec2Model ----
(***************************************************************************)
(* Remote Execution & Connectivity Layer of Drone-Control (SSHExecutor).   *)
(* Each public method of the executor is one action; the outcomes of the   *)
(* network (socket connects, SSH connects, remote exit statuses) are the   *)
(* inputs of the action.  The variable `last` is the observable record of  *)
(* the most recent call: its return value, the state before it and the     *)
(* ordered trace of network events and sleeps it performed.                *)
(***************************************************************************)
EXTENDS Integers, Sequences, FiniteSets, TLC

VARIABLES ssh_config,       \* the settings object (self.ssh_config)
          current_ip,       \* ActiveTarget host
          current_port,     \* ActiveTarget port
          secondary_ip,
          secondary_port,
          username,
          password,
          relay_ip,
          relay_ssh_port,
          relay_username,
          relay_password,
          timeout,
          max_attempts,
          last,             \* record of the most recent call
          app               \* the main window: its flags, the handler the UI
                            \* thread is in and that handler's locals

vars == <<ssh_config, current_ip, current_port, secondary_ip, secondary_port,
          username, password, relay_ip, relay_ssh_port, relay_username,
          relay_password, timeout, max_attempts, last, app>>

exec_state == <<ssh_config, current_ip, current_port, secondary_ip,
                secondary_port, username, password, relay_ip, relay_ssh_port,
                relay_username, relay_password, timeout, max_attempts>>

----------------------------------------------------------------------------
(* Values *)

None == "None"

\* Python truthiness of a str-or-None value.
Falsy(x) == x \in {None, ""}

DefaultTimeout == 5
DefaultMaxAttempts == 3

\* Largest explicit max_attempts argument passed to a command method.
MaxAttemptsArg == 3

\* Largest max_attempts argument passed to is_reachable.
MaxProbeAttempts == 4

PrimaryIps == {"", "10.5.6.100"}
SecondaryIps == {None, "10.5.6.101"}
RelayIps == {"", "10.5.6.100"}

\* The (host, port) pairs a socket probe can be addressed to.
Endpoints == {<<"10.5.6.100", "2222">>, <<"10.5.6.101", "22">>}

\* Outcomes of the successive connection attempts of one probe.
ProbeOutcomes(n) == [1..n -> BOOLEAN]

\* What one attempt of a command method meets: the connect is refused or
\* times out, the credential is rejected, or the session is established and
\* the remote command completes with status 0 / non-0.
Outcomes == {"transport", "auth", "exit0", "exitN"}
Completed == {"exit0", "exitN"}

\* The outcomes of the n attempts of one call; nothing is observed after
\* the attempt on which the command completes, so the outcomes behind it
\* are fixed to one value.
AttemptOutcomes(n) ==
    {s \in [1..n -> Outcomes] :
        \A i, j \in 1..n : (i < j /\ s[i] \in Completed) => s[j] = "transport"}

\* The max_attempts argument of a command method: absent (the Python
\* default None) or an explicit count.
NoArg == <<>>
AttemptArgs == {NoArg} \cup {<<k>> : k \in 1..MaxAttemptsArg}

\* What the single attempt of transfer_file meets.
TransferOutcomes == {"transport", "auth", "sftp_error", "get_error", "ok"}

\* Command texts are sequences of characters.  A secret interpolated into a
\* command is one element of the sequence.
sudo_prefix == <<"s", "u", "d", "o", " ">>
sudo_reboot == <<"s", "u", "d", "o", " ", "r", "e", "b", "o", "o", "t">>
uptime == <<"u", "p", "t", "i", "m", "e">>

\* Commands around the elevation prefix: prefixed, plain, the bare word, a
\* longer word and the prefix behind a leading blank.
Commands ==
    {sudo_reboot, uptime, <<"s", "u", "d", "o">>,
     <<"s", "u", "d", "o", "k", "u">>,
     <<" ", "s", "u", "d", "o", " ", "l", "s">>}

\* What the keyring holds for the companion and the relay account; without
\* an entry the executor falls back to "default_password".
CompanionSecrets == {"default_password", "companion_pw"}
RelaySecrets == {"default_password", "relay_pw"}

\* What the remote side returns for a command that completes: stdout,
\* stderr and the exit status.
NoResult == [out |-> "", err |-> "", status |-> -1]
RemoteResults(o) ==
    CASE o = "exit0" -> {[out |-> "45", err |-> "", status |-> 0],
                         [out |-> "", err |-> "warning", status |-> 0]}
      [] o = "exitN" -> {[out |-> "", err |-> "not found", status |-> 127],
                         [out |-> "partial", err |-> "failed", status |-> 1]}
      [] OTHER -> {NoResult}

\* The results the completing attempt of a call can return.
ResultsOf(outs) ==
    IF \E i \in 1..Len(outs) : outs[i] \in Completed
    THEN RemoteResults(outs[CHOOSE i \in 1..Len(outs) : outs[i] \in Completed])
    ELSE {NoResult}

NoCall == [op |-> "none", ok |-> FALSE, value |-> None, cap |-> <<>>,
           trace |-> <<>>, sub |-> <<>>, probed |-> <<>>, outs |-> <<>>,
           primUp |-> FALSE, secUp |-> FALSE, n |-> 0,
           command |-> <<>>, cmd |-> <<>>, conn |-> <<>>, reads |-> {},
           res |-> NoResult, temp |-> <<>>, iface |-> <<>>, raises |-> FALSE,
           raised |-> <<>>,
           texts |-> [a |-> <<>>, b |-> <<>>, c |-> <<>>],
           pre |-> [ip |-> None, port |-> None, timeout |-> 0, max_attempts |-> 0,
                    username |-> None, password |-> None, relay_ip |-> None,
                    relay_username |-> None, relay_password |-> None]]

Pre == [ip |-> current_ip, port |-> current_port,
        timeout |-> timeout, max_attempts |-> max_attempts,
        username |-> username, password |-> password, relay_ip |-> relay_ip,
        relay_username |-> relay_username, relay_password |-> relay_password]

startswith(s, p) == Len(s) >= Len(p) /\ SubSeq(s, 1, Len(p)) = p

Count(s, e) == Cardinality({i \in 1..Len(s) : s[i] = e})

----------------------------------------------------------------------------
(* Construction *)

wlx782288d993c0 ==
    <<"w", "l", "x", "7", "8", "2", "2", "8", "8", "d", "9", "9", "3", "c", "0">>

_default_config ==
    [primary_ip |-> "10.5.6.100", primary_port |-> "2222",
     secondary_ip |-> None, secondary_port |-> "22",
     relay_ip |-> "10.5.6.100", relay_ssh_port |-> "22",
     wifi_iface |-> wlx782288d993c0,
     connection_check_enabled |-> TRUE, connection_check_interval |-> 30000,
     temp_poll_enabled |-> <<>>, temp_poll_ms |-> <<>>]

\* load_config: the defaults, or the stored file with its own hosts.
load_config ==
    {[_default_config EXCEPT !.primary_ip = p, !.secondary_ip = s, !.relay_ip = r] :
        p \in PrimaryIps, s \in SecondaryIps, r \in RelayIps}

\* dict.get(key, default) of a key the settings may lack (<<>>).
get(entry, default) == IF entry = <<>> THEN default ELSE entry[1]

\* The most rounds of the poller counted after a setter call.
MaxCycles == 1

\* The shortest and the default wait of the temperature poller, in ms.
MinPollMs == 200
DefaultPollMs == 60000

\* max(200, int(interval_ms)) of the poller's constructor and setter.
clamp_interval_ms(interval_ms) ==
    IF interval_ms < MinPollMs THEN MinPollMs ELSE interval_ms

\* WifiTempPoller as constructed: `pc` is the position of its thread in
\* run ("cycle" at the top of the loop, "read" below the test of _enabled,
\* "wait" before the wait, "sleep" in it), `remaining` the wait it
\* computed last, in ms, and `cycles` the rounds begun since the last
\* setter call, capped at MaxCycles.
WifiTempPoller(interval_ms, enabled) ==
    [pc |-> "cycle", _enabled |-> enabled,
     _interval_ms |-> clamp_interval_ms(interval_ms), remaining |-> 0,
     cycles |-> 0]

\* The main window as its constructor leaves it for the settings cfg: the
\* poller thread is started and the UI thread is about to run the initial
\* connection check.  `file` is the content of the settings file, `pc` the
\* position of the UI thread, `original` the policy a handler saved, `orig`
\* and `primary` the locals of execute_command_all, `issued` the executor
\* commands the running handler has issued, `timers` the number of
\* pending single-shot timers of the periodic check, `singleShot` the
\* interval the newest of them was armed with and `accepted` the
\* policy the settings page accepted last, if any.  The window of main.py
\* reads the temperature with worker threads instead of the poller:
\* `_wifi_temp_busy` is its flag, `workers` the WifiTempWorker threads
\* whose run has not returned and `finished` their finished signals not
\* yet delivered to the UI thread.
DroneControlApp(cfg) ==
    [pc |-> "__init__", handler |-> "none",
     is_rebooting_or_shutting_down |-> FALSE,
     connection_check_enabled |-> cfg.connection_check_enabled,
     connection_check_interval |-> cfg.connection_check_interval,
     wifi_temp_enabled |-> get(cfg.temp_poll_enabled, TRUE),
     wifi_temp_poll_ms |-> get(cfg.temp_poll_ms, DefaultPollMs),
     wifi_temp_poller |-> WifiTempPoller(get(cfg.temp_poll_ms, DefaultPollMs),
                                         get(cfg.temp_poll_enabled, TRUE)),
     original |-> [timeout |-> 0, max_attempts |-> 0],
     orig |-> [ip |-> None, port |-> None], primary |-> FALSE,
     ok |-> FALSE, issued |-> <<>>, timers |-> 0, singleShot |-> <<>>,
     file |-> cfg,
     accepted |-> <<>>,
     _wifi_temp_busy |-> FALSE, workers |-> 0, finished |-> 0]

Init ==
    /\ ssh_config \in load_config
    /\ current_ip = ssh_config.primary_ip
    /\ current_port = ssh_config.primary_port
    /\ secondary_ip = ssh_config.secondary_ip
    /\ secondary_port = ssh_config.secondary_port
    /\ username = "roz"
    /\ password = "default_password"
    /\ relay_ip = ssh_config.relay_ip
    /\ relay_ssh_port = ssh_config.relay_ssh_port
    /\ relay_username = "vind-admin"
    /\ relay_password = "default_password"
    /\ timeout = DefaultTimeout
    /\ max_attempts = DefaultMaxAttempts
    /\ last = NoCall
    /\ app = DroneControlApp(ssh_config)

\* Construction with both hosts and the relay configured and the secrets
\* of the two accounts taken from the keyring.
InitSession ==
    /\ ssh_config = [_default_config EXCEPT !.secondary_ip = "10.5.6.101"]
    /\ current_ip = ssh_config.primary_ip
    /\ current_port = ssh_config.primary_port
    /\ secondary_ip = ssh_config.secondary_ip
    /\ secondary_port = ssh_config.secondary_port
    /\ username = "roz"
    /\ password \in CompanionSecrets
    /\ relay_ip = ssh_config.relay_ip
    /\ relay_ssh_port = ssh_config.relay_ssh_port
    /\ relay_username = "vind-admin"
    /\ relay_password \in RelaySecrets
    /\ timeout = DefaultTimeout
    /\ max_attempts = DefaultMaxAttempts
    /\ last = NoCall
    /\ app = DroneControlApp(ssh_config)

----------------------------------------------------------------------------
(* Reachability & connection test *)

\* A probe loop that gives up one attempt early.
RECURSIVE is_reachable_loop_short(_, _, _)
is_reachable_loop_short(outs, n, attempt) ==
    IF attempt >= n - 1 /\ n > 1 THEN [ret |-> FALSE, trace |-> <<>>]
    ELSE IF attempt >= n THEN [ret |-> FALSE, trace |-> <<>>]
    ELSE IF outs[attempt + 1] THEN [ret |-> TRUE, trace |-> <<"probe">>]
    ELSE [is_reachable_loop_short(outs, n, attempt + 1) EXCEPT
             !.trace = <<"probe">>
                       \o (IF attempt < n - 2 THEN <<"sleep">> ELSE <<>>) \o @]

\* A probe loop that sleeps after every failed attempt, the last included.
RECURSIVE is_reachable_loop_sleepy(_, _, _)
is_reachable_loop_sleepy(outs, n, attempt) ==
    IF attempt >= n THEN [ret |-> FALSE, trace |-> <<>>]
    ELSE IF outs[attempt + 1] THEN [ret |-> TRUE, trace |-> <<"probe">>]
    ELSE [is_reachable_loop_sleepy(outs, n, attempt + 1) EXCEPT
             !.trace = <<"probe", "sleep">> \o @]

RECURSIVE is_reachable_loop(_, _, _)
is_reachable_loop(outs, n, attempt) ==
    IF attempt >= n THEN [ret |-> FALSE, trace |-> <<>>]
    ELSE IF outs[attempt + 1] THEN [ret |-> TRUE, trace |-> <<"probe">>]
    ELSE [is_reachable_loop(outs, n, attempt + 1) EXCEPT
             !.trace = <<"probe">>
                       \o (IF attempt < n - 1 THEN <<"sleep">> ELSE <<>>) \o @]

is_reachable(outs, n) == is_reachable_loop(outs, n, 0)

\* The max_attempts argument of is_reachable: absent or an explicit count.
ProbeArgs == {NoArg} \cup {<<k>> : k \in 1..MaxProbeAttempts}

\* A direct call of is_reachable(ip, port, timeout, max_attempts).
CallIsReachable ==
    \E arg \in ProbeArgs :
      \E outs \in ProbeOutcomes(IF arg = NoArg THEN max_attempts ELSE arg[1]) :
        \E r \in {is_reachable(outs, IF arg = NoArg THEN max_attempts ELSE arg[1])} :
           /\ last' = [NoCall EXCEPT !.op = "is_reachable", !.ok = r.ret,
                          !.trace = r.trace, !.outs = outs,
                          !.n = (IF arg = NoArg THEN max_attempts ELSE arg[1]),
                          !.pre = Pre]
           /\ UNCHANGED <<exec_state, app>>

\* Whether a probe of n attempts of endpoint <<ip, port>> would succeed.
Up(env, ip, port, n) ==
    /\ ~Falsy(ip)
    /\ \E i \in 1..n : env[<<ip, port>>][i]

\* test_connection that returns the secondary without selecting it.
test_connection_keep_target(env) ==
    LET n == max_attempts
        first == IF Falsy(current_ip) THEN [ret |-> FALSE, trace |-> <<>>]
                 ELSE is_reachable(env[<<current_ip, current_port>>], n)
        p1 == IF Falsy(current_ip) THEN <<>> ELSE << <<current_ip, current_port>> >>
    IN IF first.ret
       THEN [value |-> current_ip, ip |-> current_ip, port |-> current_port,
             probed |-> p1, trace |-> first.trace]
       ELSE LET second == IF Falsy(secondary_ip) THEN [ret |-> FALSE, trace |-> <<>>]
                          ELSE is_reachable(env[<<secondary_ip, secondary_port>>], n)
                p2 == IF Falsy(secondary_ip) THEN <<>>
                      ELSE << <<secondary_ip, secondary_port>> >>
            IN [value |-> IF second.ret THEN secondary_ip ELSE None,
                ip |-> current_ip, port |-> current_port,
                probed |-> p1 \o p2, trace |-> first.trace \o second.trace]

test_connection(env) ==
    LET n == max_attempts
        first == IF Falsy(current_ip) THEN [ret |-> FALSE, trace |-> <<>>]
                 ELSE is_reachable(env[<<current_ip, current_port>>], n)
        p1 == IF Falsy(current_ip) THEN <<>> ELSE << <<current_ip, current_port>> >>
    IN IF first.ret
       THEN [value |-> current_ip, ip |-> current_ip, port |-> current_port,
             probed |-> p1, trace |-> first.trace]
       ELSE LET second == IF Falsy(secondary_ip) THEN [ret |-> FALSE, trace |-> <<>>]
                          ELSE is_reachable(env[<<secondary_ip, secondary_port>>], n)
                p2 == IF Falsy(secondary_ip) THEN <<>>
                      ELSE << <<secondary_ip, secondary_port>> >>
            IN IF second.ret
               THEN [value |-> secondary_ip, ip |-> secondary_ip, port |-> secondary_port,
                     probed |-> p1 \o p2, trace |-> first.trace \o second.trace]
               ELSE [value |-> None, ip |-> current_ip, port |-> current_port,
                     probed |-> p1 \o p2, trace |-> first.trace \o second.trace]

CallTestConnection ==
    \E env \in [Endpoints -> ProbeOutcomes(max_attempts)] :
        \E r \in {test_connection(env)} :
           /\ current_ip' = r.ip
           /\ current_port' = r.port
           /\ last' = [NoCall EXCEPT !.op = "test_connection",
                          !.ok = (r.value # None), !.value = r.value,
                          !.trace = r.trace, !.probed = r.probed,
                          !.primUp = Up(env, ssh_config.primary_ip,
                                        ssh_config.primary_port, max_attempts),
                          !.secUp = Up(env, secondary_ip, secondary_port, max_attempts),
                          !.n = max_attempts, !.pre = Pre]
           /\ UNCHANGED <<ssh_config, secondary_ip, secondary_port, username,
                          password, relay_ip, relay_ssh_port, relay_username,
                          relay_password, timeout, max_attempts, app>>

----------------------------------------------------------------------------
(* Command execution *)

\* A retry delay that is also slept after the last attempt.
execute_command_sleep_always(attempt, n) ==
    IF attempt < n THEN <<"sleep">> ELSE <<>>

\* The retry delay after attempt number `attempt` (0-based) of n.
execute_command_sleep(attempt, n) ==
    IF attempt < n - 1 THEN <<"sleep">> ELSE <<>>

\* An iteration that retries after a non-zero exit status.
execute_command_attempt_retry_exit(o) ==
    CASE o = "exit0" ->
            [done |-> TRUE, ok |-> TRUE,
             trace |-> <<"connect", "exec", "recv_exit", "close">>]
      [] o = "exitN" ->
            [done |-> FALSE, ok |-> FALSE,
             trace |-> <<"connect", "exec", "recv_exit", "read_stderr", "close">>]
      [] OTHER ->
            [done |-> FALSE, ok |-> FALSE, trace |-> <<"connect">>]

\* An iteration that gives up on a rejected credential.
execute_command_attempt_auth_final(o) ==
    CASE o = "exit0" ->
            [done |-> TRUE, ok |-> TRUE,
             trace |-> <<"connect", "exec", "recv_exit", "close">>]
      [] o = "exitN" ->
            [done |-> TRUE, ok |-> FALSE,
             trace |-> <<"connect", "exec", "recv_exit", "read_stderr", "close">>]
      [] o = "auth" ->
            [done |-> TRUE, ok |-> FALSE, trace |-> <<"connect">>]
      [] OTHER ->
            [done |-> FALSE, ok |-> FALSE, trace |-> <<"connect">>]

\* One iteration of the loop of execute_command: whether it returns, what
\* it returns and the events of the attempt.  A failed connect leaves ssh
\* None, so nothing is closed.
execute_command_attempt(o) ==
    CASE o = "exit0" ->
            [done |-> TRUE, ok |-> TRUE,
             trace |-> <<"connect", "exec", "recv_exit", "close">>]
      [] o = "exitN" ->
            [done |-> TRUE, ok |-> FALSE,
             trace |-> <<"connect", "exec", "recv_exit", "read_stderr", "close">>]
      [] o = "auth" ->
            [done |-> FALSE, ok |-> FALSE, trace |-> <<"connect">>]
      [] OTHER ->
            [done |-> FALSE, ok |-> FALSE, trace |-> <<"connect">>]

RECURSIVE execute_command_loop(_, _, _)
execute_command_loop(outs, n, attempt) ==
    IF attempt >= n THEN [ok |-> FALSE, trace |-> <<>>]
    ELSE LET a == execute_command_attempt(outs[attempt + 1])
         IN IF a.done THEN [ok |-> a.ok, trace |-> a.trace]
            ELSE [execute_command_loop(outs, n, attempt + 1) EXCEPT
                     !.trace = a.trace \o execute_command_sleep(attempt, n) \o @]

\* execute_command that checks the secret only.
execute_command_no_host_check(ip, port, outs, arg) ==
    IF Falsy(password)
    THEN [ok |-> FALSE, trace |-> <<>>]
    ELSE execute_command_loop(outs, IF arg = NoArg THEN max_attempts ELSE arg[1], 0)

\* execute_command against the ActiveTarget <<ip, port>>.
execute_command(ip, port, outs, arg) ==
    IF Falsy(ip) \/ Falsy(password)
    THEN [ok |-> FALSE, trace |-> <<>>]
    ELSE execute_command_loop(outs, IF arg = NoArg THEN max_attempts ELSE arg[1], 0)

EffectiveAttempts(arg) == IF arg = NoArg THEN max_attempts ELSE arg[1]

\* The arguments _connect opens the companion session with.
_connect ==
    [host |-> current_ip, port |-> current_port, username |-> username,
     password |-> password, timeout |-> timeout]

\* execute_command that pipes the relay secret.
execute_command_cmd_relay_secret(command) ==
    IF startswith(command, sudo_prefix)
    THEN <<"e", "c", "h", "o", " ", relay_password,
           " ", "|", " ", "s", "u", "d", "o", " ", "-", "S", " ">>
         \o SubSeq(command, 6, Len(command))
    ELSE command

\* The command text execute_command hands to exec_command.
execute_command_cmd(command) ==
    IF startswith(command, sudo_prefix)
    THEN <<"e", "c", "h", "o", " ", password,
           " ", "|", " ", "s", "u", "d", "o", " ", "-", "S", " ">>
         \o SubSeq(command, 6, Len(command))
    ELSE command

\* The executor attributes a call of execute_command reads.
execute_command_reads(arg) ==
    {"current_ip", "password"}
    \cup (IF arg = NoArg THEN {"max_attempts"} ELSE {})
    \cup (IF Falsy(current_ip) \/ Falsy(password) THEN {}
          ELSE {"current_ip", "current_port", "username", "password", "timeout"})

\* A call of execute_command(command, max_attempts = arg).
ExecuteCommand(commands, args) ==
    \E command \in commands, arg \in args :
      \E outs \in AttemptOutcomes(EffectiveAttempts(arg)) :
        \E r \in {execute_command(current_ip, current_port, outs, arg)} :
           /\ last' = [NoCall EXCEPT !.op = "execute_command", !.ok = r.ok,
                          !.trace = r.trace, !.outs = outs,
                          !.n = EffectiveAttempts(arg), !.pre = Pre,
                          !.command = command,
                          !.cmd = execute_command_cmd(command),
                          !.conn = _connect,
                          !.reads = execute_command_reads(arg)]
           /\ UNCHANGED <<exec_state, app>>

CallExecuteCommand == ExecuteCommand({sudo_reboot}, AttemptArgs)

\* An iteration that reports success whenever the command completes and
\* drops what the command wrote to stderr.
execute_command_capture_attempt_flat(o, res) ==
    CASE o \in Completed ->
            [done |-> TRUE, cap |-> <<TRUE, res.out, "", res.status>>,
             trace |-> <<"connect", "exec", "recv_exit", "read_stdout",
                         "read_stderr", "close">>]
      [] OTHER ->
            [done |-> FALSE, cap |-> <<>>, trace |-> <<"connect">>]

\* One iteration of the loop of execute_command_capture; res is what the
\* remote side returns when the command completes.
execute_command_capture_attempt(o, res) ==
    CASE o \in Completed ->
            [done |-> TRUE,
             cap |-> <<res.status = 0, res.out, res.err, res.status>>,
             trace |-> <<"connect", "exec", "recv_exit", "read_stdout",
                         "read_stderr", "close">>]
      [] o = "auth" ->
            [done |-> FALSE, cap |-> <<>>, trace |-> <<"connect">>]
      [] OTHER ->
            [done |-> FALSE, cap |-> <<>>, trace |-> <<"connect">>]

RECURSIVE execute_command_capture_loop(_, _, _, _)
execute_command_capture_loop(outs, res, n, attempt) ==
    IF attempt >= n
    THEN [cap |-> <<FALSE, "", "max attempts exceeded", -1>>, trace |-> <<>>]
    ELSE LET a == execute_command_capture_attempt(outs[attempt + 1], res)
         IN IF a.done THEN [cap |-> a.cap, trace |-> a.trace]
            ELSE [execute_command_capture_loop(outs, res, n, attempt + 1) EXCEPT
                     !.trace = a.trace
                               \o (IF attempt < n - 1 THEN <<"sleep">> ELSE <<>>) \o @]

execute_command_capture(ip, port, outs, res, arg) ==
    IF Falsy(ip) \/ Falsy(password)
    THEN [cap |-> <<FALSE, "", "no ip/password", -1>>, trace |-> <<>>]
    ELSE execute_command_capture_loop(outs, res,
                                      IF arg = NoArg THEN max_attempts ELSE arg[1], 0)

\* The command text execute_command_capture hands to exec_command.
execute_command_capture_cmd(command) == command

\* A call of execute_command_capture(command, max_attempts = arg).
ExecuteCommandCapture(commands, args) ==
    \E command \in commands, arg \in args :
      \E outs \in AttemptOutcomes(EffectiveAttempts(arg)) :
       \E res \in ResultsOf(outs) :
        \E r \in {execute_command_capture(current_ip, current_port, outs, res, arg)} :
           /\ last' = [NoCall EXCEPT !.op = "execute_command_capture",
                          !.ok = r.cap[1], !.cap = r.cap,
                          !.trace = r.trace, !.outs = outs, !.res = res,
                          !.n = EffectiveAttempts(arg), !.pre = Pre,
                          !.command = command,
                          !.cmd = execute_command_capture_cmd(command),
                          !.conn = _connect]
           /\ UNCHANGED <<exec_state, app>>

CallExecuteCommandCapture == ExecuteCommandCapture({uptime}, AttemptArgs)

\* execute_command_all that succeeds when either run succeeds.
execute_command_all_either(outs1, outs2) ==
    LET primary == execute_command(current_ip, current_port, outs1, NoArg)
        s1 == [target |-> <<current_ip, current_port>>, ok |-> primary.ok,
               trace |-> primary.trace, outs |-> outs1]
    IN IF ~Falsy(secondary_ip)
       THEN LET secondary == execute_command(secondary_ip, secondary_port, outs2, NoArg)
                s2 == [target |-> <<secondary_ip, secondary_port>>,
                       ok |-> secondary.ok, trace |-> secondary.trace, outs |-> outs2]
            IN [ok |-> primary.ok \/ secondary.ok, sub |-> <<s1, s2>>,
                ip |-> current_ip, port |-> current_port]
       ELSE [ok |-> primary.ok /\ TRUE, sub |-> <<s1>>,
             ip |-> current_ip, port |-> current_port]

\* execute_command_all that leaves ActiveTarget on the secondary.
execute_command_all_no_restore(outs1, outs2) ==
    LET primary == execute_command(current_ip, current_port, outs1, NoArg)
        s1 == [target |-> <<current_ip, current_port>>, ok |-> primary.ok,
               trace |-> primary.trace, outs |-> outs1]
    IN IF ~Falsy(secondary_ip)
       THEN LET secondary == execute_command(secondary_ip, secondary_port, outs2, NoArg)
                s2 == [target |-> <<secondary_ip, secondary_port>>,
                       ok |-> secondary.ok, trace |-> secondary.trace, outs |-> outs2]
            IN [ok |-> primary.ok /\ secondary.ok, sub |-> <<s1, s2>>,
                ip |-> secondary_ip, port |-> secondary_port]
       ELSE [ok |-> primary.ok /\ TRUE, sub |-> <<s1>>,
             ip |-> current_ip, port |-> current_port]

\* execute_command_all: the command on the ActiveTarget, then, with a
\* secondary configured, on the secondary with ActiveTarget swapped and
\* restored.  outs1 / outs2 are the attempt outcomes of the two runs.
execute_command_all(outs1, outs2) ==
    LET primary == execute_command(current_ip, current_port, outs1, NoArg)
        s1 == [target |-> <<current_ip, current_port>>, ok |-> primary.ok,
               trace |-> primary.trace, outs |-> outs1]
    IN IF ~Falsy(secondary_ip)
       THEN LET secondary == execute_command(secondary_ip, secondary_port, outs2, NoArg)
                s2 == [target |-> <<secondary_ip, secondary_port>>,
                       ok |-> secondary.ok, trace |-> secondary.trace, outs |-> outs2]
            IN [ok |-> primary.ok /\ secondary.ok, sub |-> <<s1, s2>>,
                ip |-> current_ip, port |-> current_port]
       ELSE [ok |-> primary.ok /\ TRUE, sub |-> <<s1>>,
             ip |-> current_ip, port |-> current_port]

\* Without a secondary the second run does not happen and has no outcomes.
SecondOutcomes ==
    IF Falsy(secondary_ip) THEN {<<>>} ELSE AttemptOutcomes(max_attempts)

CallExecuteCommandAll ==
    \E outs \in AttemptOutcomes(max_attempts) \X SecondOutcomes :
      \E r \in {execute_command_all(outs[1], outs[2])} :
           /\ current_ip' = r.ip
           /\ current_port' = r.port
           /\ last' = [NoCall EXCEPT !.op = "execute_command_all", !.ok = r.ok,
                          !.sub = r.sub, !.n = max_attempts, !.pre = Pre]
           /\ UNCHANGED <<ssh_config, secondary_ip, secondary_port, username,
                          password, relay_ip, relay_ssh_port, relay_username,
                          relay_password, timeout, max_attempts, app>>

----------------------------------------------------------------------------
(* Relay commands *)

\* One iteration of the loop of execute_relay_command; the client exists
\* before the try, so it is closed on every outcome.
execute_relay_command_attempt(o) ==
    CASE o = "exit0" ->
            [done |-> TRUE, ok |-> TRUE,
             trace |-> <<"connect", "exec", "recv_exit", "close">>]
      [] o = "exitN" ->
            [done |-> TRUE, ok |-> FALSE,
             trace |-> <<"connect", "exec", "recv_exit", "read_stderr", "close">>]
      [] o = "auth" ->
            [done |-> FALSE, ok |-> FALSE, trace |-> <<"connect", "close">>]
      [] OTHER ->
            [done |-> FALSE, ok |-> FALSE, trace |-> <<"connect", "close">>]

RECURSIVE execute_relay_command_loop(_, _, _)
execute_relay_command_loop(outs, n, attempt) ==
    IF attempt >= n THEN [ok |-> FALSE, trace |-> <<>>]
    ELSE LET a == execute_relay_command_attempt(outs[attempt + 1])
         IN IF a.done THEN [ok |-> a.ok, trace |-> a.trace]
            ELSE [execute_relay_command_loop(outs, n, attempt + 1) EXCEPT
                     !.trace = a.trace
                               \o (IF attempt < n - 1 THEN <<"sleep">> ELSE <<>>) \o @]

execute_relay_command(outs, arg) ==
    IF Falsy(relay_ip) \/ Falsy(relay_password)
    THEN [ok |-> FALSE, trace |-> <<>>]
    ELSE execute_relay_command_loop(outs, IF arg = NoArg THEN max_attempts ELSE arg[1], 0)

\* A relay connect that logs in with the companion account.
execute_relay_command_connect_companion ==
    [host |-> relay_ip, port |-> relay_ssh_port, username |-> username,
     password |-> password, timeout |-> timeout]

\* The arguments execute_relay_command opens the relay session with.
execute_relay_command_connect ==
    [host |-> relay_ip, port |-> relay_ssh_port, username |-> relay_username,
     password |-> relay_password, timeout |-> timeout]

\* The command text execute_relay_command hands to exec_command.
execute_relay_command_cmd(command) ==
    IF startswith(command, sudo_prefix)
    THEN <<"e", "c", "h", "o", " ", relay_password,
           " ", "|", " ", "s", "u", "d", "o", " ", "-", "S", " ">>
         \o SubSeq(command, 6, Len(command))
    ELSE command

\* The executor attributes a call of execute_relay_command reads.
execute_relay_command_reads(arg) ==
    {"relay_ip", "relay_password"}
    \cup (IF arg = NoArg THEN {"max_attempts"} ELSE {})
    \cup (IF Falsy(relay_ip) \/ Falsy(relay_password) THEN {}
          ELSE {"relay_ip", "relay_ssh_port", "relay_username", "relay_password",
                "timeout"})

\* A call of execute_relay_command(command, max_attempts = arg).
ExecuteRelayCommand(commands, args) ==
    \E command \in commands, arg \in args :
      \E outs \in AttemptOutcomes(EffectiveAttempts(arg)) :
        \E r \in {execute_relay_command(outs, arg)} :
           /\ last' = [NoCall EXCEPT !.op = "execute_relay_command", !.ok = r.ok,
                          !.trace = r.trace, !.outs = outs,
                          !.n = EffectiveAttempts(arg), !.pre = Pre,
                          !.command = command,
                          !.cmd = execute_relay_command_cmd(command),
                          !.conn = execute_relay_command_connect,
                          !.reads = execute_relay_command_reads(arg)]
           /\ UNCHANGED <<exec_state, app>>

CallExecuteRelayCommand == ExecuteRelayCommand({sudo_reboot}, AttemptArgs)

----------------------------------------------------------------------------
(* Utilities *)

\* transfer_file that reports success although the copy failed.
transfer_file_ignore_copy(o) ==
    IF Falsy(current_ip) \/ Falsy(password)
    THEN [cap |-> <<FALSE, None>>, trace |-> <<>>]
    ELSE CASE o \in {"ok", "get_error"} ->
                [cap |-> <<TRUE, "local_path">>,
                 trace |-> <<"connect", "open_sftp", "get", "sftp_close", "close">>]
           [] o = "sftp_error" ->
                [cap |-> <<FALSE, None>>, trace |-> <<"connect", "open_sftp", "close">>]
           [] OTHER ->
                [cap |-> <<FALSE, None>>, trace |-> <<"connect", "close">>]

\* transfer_file: one session, one copy, no loop.
transfer_file(o) ==
    IF Falsy(current_ip) \/ Falsy(password)
    THEN [cap |-> <<FALSE, None>>, trace |-> <<>>]
    ELSE CASE o = "ok" ->
                [cap |-> <<TRUE, "local_path">>,
                 trace |-> <<"connect", "open_sftp", "get", "sftp_close", "close">>]
           [] o = "get_error" ->
                [cap |-> <<FALSE, None>>,
                 trace |-> <<"connect", "open_sftp", "get", "close">>]
           [] o = "sftp_error" ->
                [cap |-> <<FALSE, None>>, trace |-> <<"connect", "open_sftp", "close">>]
           [] OTHER ->
                [cap |-> <<FALSE, None>>, trace |-> <<"connect", "close">>]

CallTransferFile ==
    \E o \in TransferOutcomes :
        \E r \in {transfer_file(o)} :
           /\ last' = [NoCall EXCEPT !.op = "transfer_file", !.ok = r.cap[1],
                          !.cap = r.cap, !.trace = r.trace, !.outs = <<o>>,
                          !.n = 1, !.pre = Pre]
           /\ UNCHANGED <<exec_state, app>>

----------------------------------------------------------------------------
(* Wi-Fi temperature *)

\* Temperatures are integers in thousandths of a degree Celsius.
Milli == 1000
clamp_min == -40
clamp_max == 130
\* Above this a sysfs value is taken to be in millidegrees.
MilliDegreeThreshold == 200

InRange(m) == clamp_min * Milli <= m /\ m <= clamp_max * Milli

\* float(f"{v:.1f}"): the nearest tenth; a value exactly half way between
\* two tenths, which a binary float holds exactly only for .25 and .75,
\* goes to the even tenth.
Round1(m) ==
    LET a == IF m < 0 THEN -m ELSE m
        q == a \div 100
        r == a % 100
        v == 100 * (IF r > 50 \/ (r = 50 /\ q % 2 = 1) THEN q + 1 ELSE q)
    IN IF m < 0 THEN -v ELSE v

IsDigit(c) == c \in {"0", "1", "2", "3", "4", "5", "6", "7", "8", "9"}
DigitValue(c) ==
    CASE c = "0" -> 0 [] c = "1" -> 1 [] c = "2" -> 2 [] c = "3" -> 3
      [] c = "4" -> 4 [] c = "5" -> 5 [] c = "6" -> 6 [] c = "7" -> 7
      [] c = "8" -> 8 [] c = "9" -> 9
IsSpace(c) == c \in {" ", "\n", "\t"}
\* The characters of the regular-expression class \w that occur in outputs.
IsWord(c) ==
    \/ IsDigit(c)
    \/ c \in {"_", "a", "b", "c", "d", "e", "f", "g", "h", "i", "j", "k", "l",
              "m", "n", "o", "p", "q", "r", "s", "t", "u", "v", "w", "x", "y",
              "z", "A", "B", "C", "D", "E", "F", "G", "H", "I", "J", "K", "L",
              "M", "N", "O", "P", "Q", "R", "S", "T", "U", "V", "W", "X", "Y",
              "Z"}

\* str.strip(): the text without leading and trailing white space.
RECURSIVE strip(_)
strip(t) ==
    IF t = <<>> THEN t
    ELSE IF IsSpace(t[1]) THEN strip(Tail(t))
    ELSE IF IsSpace(t[Len(t)]) THEN strip(SubSeq(t, 1, Len(t) - 1))
    ELSE t

\* The index behind the digits that start at index i (i itself when none).
RECURSIVE DigitsEnd(_, _)
DigitsEnd(t, i) ==
    IF i <= Len(t) /\ IsDigit(t[i]) THEN DigitsEnd(t, i + 1) ELSE i

\* The index behind the white space that starts at index i.
RECURSIVE SpacesEnd(_, _)
SpacesEnd(t, i) ==
    IF i <= Len(t) /\ IsSpace(t[i]) THEN SpacesEnd(t, i + 1) ELSE i

\* The pattern -?\d+(?:\.\d+)? at index i: the index behind the match, 0
\* when there is none.
NumberEnd(t, i) ==
    LET s == IF i <= Len(t) /\ t[i] = "-" THEN i + 1 ELSE i
        e == DigitsEnd(t, s)
    IN IF e = s THEN 0
       ELSE IF e <= Len(t) /\ t[e] = "." /\ DigitsEnd(t, e + 1) > e + 1
            THEN DigitsEnd(t, e + 1)
            ELSE e

\* The number written by the digits t[i..e-1].
RECURSIVE DigitsValue(_, _, _)
DigitsValue(t, i, e) ==
    IF i >= e THEN 0 ELSE 10 * DigitsValue(t, i, e - 1) + DigitValue(t[e - 1])

\* float() of the number literal t[i..e-1], in thousandths; fractions of up
\* to three digits are exact.
NumberValue(t, i, e) ==
    LET s == IF t[i] = "-" THEN i + 1 ELSE i
        d == DigitsEnd(t, s)
        whole == Milli * DigitsValue(t, s, d)
        n == IF d < e THEN e - (d + 1) ELSE 0
        frac == CASE n = 0 -> 0
                  [] n = 1 -> 100 * DigitsValue(t, d + 1, e)
                  [] n = 2 -> 10 * DigitsValue(t, d + 1, e)
                  [] OTHER -> DigitsValue(t, d + 1, d + 4)
    IN IF t[i] = "-" THEN -(whole + frac) ELSE whole + frac

\* float(text) of a whole text: <<value>>, or <<>> where float raises
\* ValueError.
to_float(t) ==
    IF t # <<>> /\ NumberEnd(t, 1) = Len(t) + 1
    THEN <<NumberValue(t, 1, Len(t) + 1)>>
    ELSE <<>>

temperature_keyword == <<"t", "e", "m", "p", "e", "r", "a", "t", "u", "r", "e", ":">>

\* re.finditer(r"temperature:\s*(-?\d+(?:\.\d+)?)", proc_out): the numbers
\* of the successive matches from index i on.
RECURSIVE thermal_state_matches(_, _)
thermal_state_matches(t, i) ==
    IF i > Len(t) THEN <<>>
    ELSE LET k == Len(temperature_keyword)
             s == SpacesEnd(t, i + k)
             e == NumberEnd(t, s)
         IN IF i + k - 1 <= Len(t)
               /\ SubSeq(t, i, i + k - 1) = temperature_keyword
               /\ e # 0
            THEN <<NumberValue(t, s, e)>> \o thermal_state_matches(t, e)
            ELSE thermal_state_matches(t, i + 1)

Max(S) == CHOOSE x \in S : \A y \in S : y <= x
Range(q) == {q[i] : i \in 1..Len(q)}

\* Tier A that takes the first in-range value.
tier_a_first(proc_out) ==
    LET temps == SelectSeq(thermal_state_matches(proc_out, 1), InRange)
    IN IF temps # <<>> THEN <<Round1(temps[1])>> ELSE <<>>

\* Tier A: the hottest in-range value of the procfs thermal state, <<>> when
\* there is none.
tier_a(proc_out) ==
    LET temps == SelectSeq(thermal_state_matches(proc_out, 1), InRange)
    IN IF temps # <<>> THEN <<Round1(Max(Range(temps)))>> ELSE <<>>

\* The pattern (-?\d+(?:\.\d+)?)\s*°?\s*[Cc]\b at index i: <<value>> of the
\* number on a match, <<>> otherwise.  "deg" stands for the degree sign.
celsius_match(t, i) ==
    LET e == NumberEnd(t, i)
        s1 == SpacesEnd(t, e)
        d == IF s1 <= Len(t) /\ t[s1] = "deg" THEN s1 + 1 ELSE s1
        c == SpacesEnd(t, d)
    IN IF e # 0 /\ c <= Len(t) /\ t[c] \in {"C", "c"}
          /\ (c = Len(t) \/ ~IsWord(t[c + 1]))
       THEN <<NumberValue(t, i, e)>>
       ELSE <<>>

\* re.search of that pattern: the leftmost match from index i on.
RECURSIVE celsius_search(_, _)
celsius_search(t, i) ==
    IF i > Len(t) THEN <<>>
    ELSE IF celsius_match(t, i) # <<>> THEN celsius_match(t, i)
    ELSE celsius_search(t, i + 1)

\* The leftmost match of the Celsius pattern whose value is in range.
RECURSIVE celsius_search_in_range(_, _)
celsius_search_in_range(t, i) ==
    IF i > Len(t) THEN <<>>
    ELSE IF celsius_match(t, i) # <<>> /\ InRange(celsius_match(t, i)[1])
    THEN celsius_match(t, i)
    ELSE celsius_search_in_range(t, i + 1)

\* Tier B that looks past a first figure that is out of range.
tier_b_any(out) ==
    LET m == celsius_search_in_range(out, 1)
    IN IF m # <<>> THEN <<Round1(m[1])>> ELSE <<>>

\* Tier B: the first Celsius figure of the wfb-cli output, if in range.
tier_b(out) ==
    LET m == celsius_search(out, 1)
    IN IF m # <<>> /\ InRange(m[1]) THEN <<Round1(m[1])>> ELSE <<>>

\* Tier C that takes every value to be in millidegrees.
tier_c_always_divide(val_s) ==
    LET f == to_float(val_s)
    IN IF val_s = <<>> \/ f = <<>> THEN <<>>
       ELSE LET v == f[1] \div Milli
            IN IF InRange(v) THEN <<Round1(v)>> ELSE <<>>

\* Tier C that takes every value to be in degrees.
tier_c_no_divide(val_s) ==
    LET f == to_float(val_s)
    IN IF val_s = <<>> \/ f = <<>> THEN <<>>
       ELSE IF InRange(f[1]) THEN <<Round1(f[1])>> ELSE <<>>

\* Tier C that accepts what it read without the range check.
tier_c_unchecked(val_s) ==
    LET f == to_float(val_s)
    IN IF val_s = <<>> \/ f = <<>> THEN <<>>
       ELSE LET v == IF f[1] > MilliDegreeThreshold * Milli
                     THEN f[1] \div Milli ELSE f[1]
            IN <<Round1(v)>>

\* Tier C: the sysfs hwmon value, divided by 1000 when above 200, if in
\* range.
tier_c(val_s) ==
    LET f == to_float(val_s)
    IN IF val_s = <<>> \/ f = <<>> THEN <<>>
       ELSE LET v == IF f[1] > MilliDegreeThreshold * Milli
                     THEN f[1] \div Milli ELSE f[1]
            IN IF InRange(v) THEN <<Round1(v)>> ELSE <<>>

\* The outcome of one remote read: it raises (the channel fails or the read
\* times out) or it delivers the text the command printed.
Raised == [raised |-> TRUE, text |-> <<>>]
Delivered(t) == [raised |-> FALSE, text |-> t]

\* _safe_read: the output of a command, stripped.
_safe_read(r) == strip(r.text)

\* An interface pick that takes a read that raises for an empty output.
_pick_iface_swallow(wfb, ls) ==
    IF ~wfb.raised /\ _safe_read(wfb) # <<>>
    THEN [raised |-> FALSE, iface |-> _safe_read(wfb), trace |-> <<"read_wfb_nics">>]
    ELSE IF ~ls.raised /\ _safe_read(ls) # <<>>
    THEN [raised |-> FALSE, iface |-> _safe_read(ls),
          trace |-> <<"read_wfb_nics", "read_proc_ls">>]
    ELSE [raised |-> FALSE, iface |-> strip(ssh_config.wifi_iface),
          trace |-> <<"read_wfb_nics", "read_proc_ls">>]

\* _pick_iface: the first of the WFB configuration, the procfs listing and
\* the configured interface that names one.
_pick_iface(wfb, ls) ==
    IF wfb.raised
    THEN [raised |-> TRUE, iface |-> <<>>, trace |-> <<"read_wfb_nics">>]
    ELSE IF _safe_read(wfb) # <<>>
    THEN [raised |-> FALSE, iface |-> _safe_read(wfb), trace |-> <<"read_wfb_nics">>]
    ELSE IF ls.raised
    THEN [raised |-> TRUE, iface |-> <<>>,
          trace |-> <<"read_wfb_nics", "read_proc_ls">>]
    ELSE IF _safe_read(ls) # <<>>
    THEN [raised |-> FALSE, iface |-> _safe_read(ls),
          trace |-> <<"read_wfb_nics", "read_proc_ls">>]
    ELSE [raised |-> FALSE, iface |-> strip(ssh_config.wifi_iface),
          trace |-> <<"read_wfb_nics", "read_proc_ls">>]

NoTexts == [a |-> <<>>, b |-> <<>>, c |-> <<>>]

\* The tiers with every command issued and the first reading returned.
tiers_eager(iface, a, b, c) ==
    LET ra == IF iface # <<>> /\ ~a.raised THEN tier_a(_safe_read(a)) ELSE <<>>
        rb == IF ~b.raised THEN tier_b(_safe_read(b)) ELSE <<>>
        rc == IF ~c.raised THEN tier_c(_safe_read(c)) ELSE <<>>
    IN [exc |-> FALSE,
        temp |-> IF ra # <<>> THEN ra ELSE IF rb # <<>> THEN rb ELSE rc,
        trace |-> <<"tier_a", "tier_b", "tier_c">>,
        texts |-> [a |-> _safe_read(a), b |-> _safe_read(b), c |-> _safe_read(c)]]

\* The tiers of get_wifi_module_temperature once the interface is picked:
\* the reading, the commands issued and the outputs they delivered.
tiers(iface, a, b, c) ==
    IF iface # <<>> /\ a.raised
    THEN [exc |-> TRUE, temp |-> <<>>, trace |-> <<"tier_a">>, texts |-> NoTexts]
    ELSE IF iface # <<>> /\ tier_a(_safe_read(a)) # <<>>
    THEN [exc |-> FALSE, temp |-> tier_a(_safe_read(a)), trace |-> <<"tier_a">>,
          texts |-> [NoTexts EXCEPT !.a = _safe_read(a)]]
    ELSE LET ta == IF iface # <<>> THEN <<"tier_a">> ELSE <<>>
             xa == IF iface # <<>> THEN _safe_read(a) ELSE <<>>
         IN IF b.raised
            THEN [exc |-> TRUE, temp |-> <<>>, trace |-> ta \o <<"tier_b">>,
                  texts |-> [NoTexts EXCEPT !.a = xa]]
            ELSE IF tier_b(_safe_read(b)) # <<>>
            THEN [exc |-> FALSE, temp |-> tier_b(_safe_read(b)),
                  trace |-> ta \o <<"tier_b">>,
                  texts |-> [NoTexts EXCEPT !.a = xa, !.b = _safe_read(b)]]
            ELSE IF c.raised
            THEN [exc |-> TRUE, temp |-> <<>>, trace |-> ta \o <<"tier_b", "tier_c">>,
                  texts |-> [NoTexts EXCEPT !.a = xa, !.b = _safe_read(b)]]
            ELSE [exc |-> FALSE, temp |-> tier_c(_safe_read(c)),
                  trace |-> ta \o <<"tier_b", "tier_c">>,
                  texts |-> [a |-> xa, b |-> _safe_read(b), c |-> _safe_read(c)]]

\* What the connect of the temperature read meets.
ConnectOutcomes == {"ok", "transport", "auth"}

\* What the try block returns once the interface p is picked and the
\* tiers gave r.
try_result(p, r) ==
    [exc |-> r.exc, ssh |-> TRUE, temp |-> r.temp,
     trace |-> <<"connect">> \o p.trace \o r.trace,
     texts |-> r.texts, iface |-> p.iface]

\* The try block below the connect, p being what _pick_iface gave.
try_session(p, a, b, c) ==
    IF p.raised
    THEN [exc |-> TRUE, ssh |-> TRUE, temp |-> <<>>,
          trace |-> <<"connect">> \o p.trace,
          texts |-> NoTexts, iface |-> <<>>]
    ELSE try_result(p, tiers(p.iface, a, b, c))

\* The try block of get_wifi_module_temperature (v1.3): one session, the
\* interface, the tiers.  exc tells that an exception left the block, ssh
\* that the session object was assigned.
get_wifi_module_temperature_try(o, wfb, ls, a, b, c) ==
    IF o # "ok"
    THEN [exc |-> TRUE, ssh |-> FALSE, temp |-> <<>>, trace |-> <<"connect">>,
          texts |-> NoTexts, iface |-> <<>>]
    ELSE try_session(_pick_iface(wfb, ls), a, b, c)

\* A finally clause without the exception handler before it.
finally_only(t) ==
    [raises |-> t.exc, temp |-> t.temp,
     trace |-> t.trace \o (IF t.ssh THEN <<"close">> ELSE <<>>),
     texts |-> t.texts, iface |-> t.iface]

\* The except and finally clauses on what the try block t did: any
\* exception is caught and gives None (<<>>); an opened session is closed.
except_finally(t) ==
    [raises |-> FALSE, temp |-> IF t.exc THEN <<>> ELSE t.temp,
     trace |-> t.trace \o (IF t.ssh THEN <<"close">> ELSE <<>>),
     texts |-> t.texts, iface |-> t.iface]

\* get_wifi_module_temperature (v1.3).
get_wifi_module_temperature(o, wfb, ls, a, b, c) ==
    except_finally(get_wifi_module_temperature_try(o, wfb, ls, a, b, c))

\* Outputs of the procfs thermal state: two paths, one path out of range,
\* a value above the range, nothing, and negative values.
ThermalStateTexts ==
    {<<"t", "e", "m", "p", "e", "r", "a", "t", "u", "r", "e", ":", " ",
       "4", "5", " ", "t", "e", "m", "p", "e", "r", "a", "t", "u", "r",
       "e", ":", " ", "5", "2">>,
     <<"t", "e", "m", "p", "e", "r", "a", "t", "u", "r", "e", ":", " ",
       "1", "5", "0", " ", "t", "e", "m", "p", "e", "r", "a", "t", "u",
       "r", "e", ":", " ", "5", "2", ".", "2", "5", "\n">>,
     <<"t", "e", "m", "p", "e", "r", "a", "t", "u", "r", "e", ":", " ",
       "1", "3", "1">>,
     <<>>,
     <<"t", "e", "m", "p", "e", "r", "a", "t", "u", "r", "e", ":", "-",
       "4", "1", " ", "t", "e", "m", "p", "e", "r", "a", "t", "u", "r",
       "e", ":", " ", "-", "5", ".", "5">>}

\* Outputs of the wfb-cli filter.
WfbCliTexts ==
    {<<"r", "f", "_", "t", "e", "m", "p", ":", " ", "6", "3", " ", "C">>,
     <<"r", "s", "s", "i", " ", "-", "7", "0", " ", "t", "e", "m", "p",
       " ", "1", "4", "0", "C", " ", "6", "3", "C">>,
     <<>>,
     <<"5", "8", ".", "5", "deg", "C", "\n">>}

\* Outputs of the sysfs hwmon read: millidegrees, degrees, out of range,
\* not a number, nothing.
SysfsTexts ==
    {<<"4", "5", "2", "3", "1", "\n">>,
     <<"9", "9", "9", "9">>,
     <<"1", "5", "0">>,
     <<"N", "/", "A">>,
     <<>>,
     <<"3", "8", ".", "5">>}

Reads(texts) == {Raised} \cup {Delivered(t) : t \in texts}

\* What the two interface reads deliver.
IfaceReads ==
    {<<Delivered(<<"w", "l", "a", "n", "0", "\n">>), Delivered(<<>>)>>,
     <<Delivered(<<>>), Delivered(<<"w", "l", "a", "n", "0", "\n">>)>>,
     <<Delivered(<<>>), Delivered(<<>>)>>,
     <<Raised, Delivered(<<>>)>>,
     <<Delivered(<<>>), Raised>>}

\* The executor attributes a temperature read reads: those of _connect.
get_wifi_module_temperature_reads ==
    {"current_ip", "current_port", "username", "password", "timeout"}

\* Read e was issued in the trace and its delivery r raised.
issued_raised(trace, e, r) ==
    r.raised /\ \E x \in 1..Len(trace) : trace[x] = e

\* Which of the five remote reads were issued and raised, in the order of
\* their commands.
read_raised(trace, wfb, ls, a, b, c) ==
    <<issued_raised(trace, "read_wfb_nics", wfb),
      issued_raised(trace, "read_proc_ls", ls),
      issued_raised(trace, "tier_a", a),
      issued_raised(trace, "tier_b", b),
      issued_raised(trace, "tier_c", c)>>

\* A call of get_wifi_module_temperature with the session outcome o, the
\* interface reads i and the tier reads a, b, c.
get_wifi_module_temperature_call(o, i, a, b, c) ==
    \E r \in {get_wifi_module_temperature(o, i[1], i[2], a, b, c)} :
         last' = [NoCall EXCEPT !.op = "get_wifi_module_temperature",
                      !.ok = (r.temp # <<>>), !.temp = r.temp,
                      !.raises = r.raises, !.outs = <<o>>,
                      !.trace = r.trace, !.texts = r.texts,
                      !.iface = r.iface, !.pre = Pre,
                      !.conn = _connect,
                      !.raised = read_raised(r.trace, i[1], i[2], a, b, c),
                      !.reads = get_wifi_module_temperature_reads]

\* The call with its session outcome and the outputs of its remote reads
\* drawn from the given sets.
ReadWifiModuleTemperature(conns, ifaces, as, bs, cs) ==
    \E o \in conns, i \in ifaces :
      \E a \in as, b \in bs, c \in cs :
        get_wifi_module_temperature_call(o, i, a, b, c)

\* The same call by a caller that changes nothing else.
GetWifiModuleTemperature(conns, ifaces, as, bs, cs) ==
    \E o \in conns, i \in ifaces :
      \E a \in as, b \in bs, c \in cs :
        /\ get_wifi_module_temperature_call(o, i, a, b, c)
        /\ UNCHANGED <<exec_state, app>>

CallGetWifiModuleTemperature ==
    GetWifiModuleTemperature(ConnectOutcomes, IfaceReads,
                             Reads(ThermalStateTexts), Reads(WfbCliTexts),
                             Reads(SysfsTexts))

\* The linear transform of the raw thermal value (v1.1): degrees are
\* (raw - offset) * scale, the scale in tenths.
wifi_temp_offset == 32
wifi_temp_scale_tenths == 25

\* str.splitlines().
RECURSIVE splitlines(_)
splitlines(t) ==
    IF t = <<>> THEN <<>>
    ELSE LET k == IF \E i \in 1..Len(t) : t[i] = "\n"
                  THEN CHOOSE i \in 1..Len(t) :
                          t[i] = "\n" /\ \A j \in 1..(i - 1) : t[j] # "\n"
                  ELSE Len(t) + 1
         IN <<SubSeq(t, 1, k - 1)>> \o splitlines(SubSeq(t, k + 1, Len(t)))

\* The procfs tier of v1.1 without the fallback to the raw value.
legacy_tier_a_no_fallback(out) ==
    LET raw == to_float(strip(out))
    IN IF raw = <<>> THEN <<>>
       ELSE LET temp_c == ((raw[1] - wifi_temp_offset * Milli)
                              * wifi_temp_scale_tenths) \div 10
            IN IF InRange(temp_c) THEN <<Round1(temp_c)>> ELSE <<>>

\* The procfs tier of v1.1: the transformed raw value, or the raw value
\* itself when only that is in range.
legacy_tier_a(out) ==
    LET raw == to_float(strip(out))
    IN IF raw = <<>> THEN <<>>
       ELSE LET temp_c == ((raw[1] - wifi_temp_offset * Milli)
                              * wifi_temp_scale_tenths) \div 10
                t == IF ~InRange(temp_c) /\ InRange(raw[1]) THEN raw[1] ELSE temp_c
            IN IF InRange(t) THEN <<Round1(t)>> ELSE <<>>

\* The sysfs tier of v1.1: the first line that holds an in-range value.
RECURSIVE legacy_sysfs(_, _)
legacy_sysfs(lines, i) ==
    IF i > Len(lines) THEN <<>>
    ELSE IF tier_c(strip(lines[i])) # <<>> THEN tier_c(strip(lines[i]))
    ELSE legacy_sysfs(lines, i + 1)

\* What a completed capture returns when the command printed text.
Printed(outs, text) ==
    [out |-> text, err |-> "",
     status |-> IF \E i \in 1..Len(outs) : outs[i] = "exit0" THEN 0 ELSE 1]

\* get_wifi_module_temperature (v1.1): two captured commands, each with the
\* executor's retries.
get_wifi_module_temperature_v1_1(outsA, textA, outsB, textB) ==
    LET A == execute_command_capture(current_ip, current_port, outsA,
                                     Printed(outsA, textA), NoArg)
    IN IF A.cap[1] /\ strip(A.cap[2]) # <<>> /\ legacy_tier_a(A.cap[2]) # <<>>
       THEN [temp |-> legacy_tier_a(A.cap[2]), trace |-> A.trace,
             texts |-> [NoTexts EXCEPT !.a = A.cap[2]]]
       ELSE LET B == execute_command_capture(current_ip, current_port, outsB,
                                             Printed(outsB, textB), NoArg)
            IN [temp |-> IF B.cap[1] /\ B.cap[2] # <<>>
                         THEN legacy_sysfs(splitlines(B.cap[2]), 1) ELSE <<>>,
                trace |-> A.trace \o B.trace,
                texts |-> [NoTexts EXCEPT
                              !.a = IF A.cap[1] THEN A.cap[2] ELSE <<>>,
                              !.c = IF B.cap[1] THEN B.cap[2] ELSE <<>>]]

\* Raw thermal values of the v1.1 procfs read.
LegacyThermalTexts ==
    {<<"5", "8", "\n">>,
     <<"1", "0", "0">>,
     <<"2", "0", "0">>,
     <<>>,
     <<"N", "/", "A">>}

\* Outputs of the v1.1 sysfs loop, one line per sensor.
LegacySysfsTexts ==
    {<<"1", "5", "0", "\n", "4", "5", "2", "3", "1", "\n">>,
     <<"3", "8", ".", "5", "\n">>,
     <<>>,
     <<"9", "9", "9", "9", "\n">>}

\* The attempts of a captured read: the command completes at once, or the
\* companion cannot be reached at all.
LegacyOutcomes ==
    {o \in AttemptOutcomes(max_attempts) :
        o[1] \in Completed \/ \A i \in 1..max_attempts : o[i] = "transport"}

CallGetWifiModuleTemperatureV11 ==
    \E outsA \in LegacyOutcomes, outsB \in LegacyOutcomes :
      \E textA \in LegacyThermalTexts, textB \in LegacySysfsTexts :
        \E r \in {get_wifi_module_temperature_v1_1(outsA, textA, outsB, textB)} :
           /\ last' = [NoCall EXCEPT !.op = "get_wifi_module_temperature_v1_1",
                          !.ok = (r.temp # <<>>), !.temp = r.temp,
                          !.trace = r.trace, !.texts = r.texts,
                          !.outs = <<outsA, outsB>>, !.pre = Pre]
           /\ UNCHANGED <<exec_state, app>>

----------------------------------------------------------------------------
(* Main window: connectivity check, settings and disruptive operations *)

\* The single attempt a reboot or shutdown handler allows its commands.
SingleAttempt == 1

sudo_shutdown_now ==
    <<"s", "u", "d", "o", " ", "s", "h", "u", "t", "d", "o", "w", "n", " ",
      "n", "o", "w">>

tunnel_restart_command ==
    <<"s", "u", "d", "o", " ", "s", "y", "s", "t", "e", "m", "c", "t", "l", " ",
      "r", "e", "s", "t", "a", "r", "t", " ", "s", "s", "h", "-", "t", "u",
      "n", "n", "e", "l", "-", "t", "o", "-", "c", "o", "m", "p", "a", "n",
      "i", "o", "n", ".", "s", "e", "r", "v", "i", "c", "e">>

\* The reboot and shutdown handlers with the command each one issues.
CompanionHandlers ==
    {"reboot_companion_and_restart_tunnel", "shutdown_companion_and_restart_tunnel"}
RelayHandlers == {"reboot_relay", "shutdown_relay"}
DisruptiveHandlers == CompanionHandlers \cup RelayHandlers
HandlerCommand(h) ==
    IF h \in {"reboot_companion_and_restart_tunnel", "reboot_relay"}
    THEN sudo_reboot ELSE sudo_shutdown_now

\* What a handler notes of an executor command it issued: the method, the
\* command, the attempts it was allowed and the sessions it opened.
IssuedCommand(op, command, r) ==
    [op |-> op, command |-> command, n |-> max_attempts, ok |-> r.ok,
     connects |-> Count(r.trace, "connect")]

\* restart_relay_ssh_tunnel: the restart command through the relay method,
\* without a max_attempts argument.
restart_relay_ssh_tunnel(outs) == execute_relay_command(outs, NoArg)

\* A restore that keeps the overridden attempts when the command failed.
restore_policy_success_only ==
    IF app.ok THEN app.original
    ELSE [timeout |-> app.original.timeout, max_attempts |-> max_attempts]

\* The policy the tail of a reboot or shutdown handler writes back: the
\* saved one, whichever branch was taken.
restore_policy == app.original

\* The head of a reboot or shutdown handler: the flag is raised, the policy
\* saved and overridden.  int(self.timeout) leaves an integer as it is.
DisruptiveOverride ==
    \E h \in DisruptiveHandlers :
        /\ app.pc = "idle"
        /\ app' = [app EXCEPT !.pc = "command", !.handler = h,
                      !.is_rebooting_or_shutting_down = TRUE,
                      !.original = [timeout |-> timeout,
                                    max_attempts |-> max_attempts],
                      !.ok = FALSE, !.issued = <<>>]
        /\ max_attempts' = SingleAttempt
        /\ timeout' = timeout
        /\ last' = [NoCall EXCEPT !.op = "override", !.pre = Pre]
        /\ UNCHANGED <<ssh_config, current_ip, current_port, secondary_ip,
                       secondary_port, username, password, relay_ip,
                       relay_ssh_port, relay_username, relay_password>>

\* execute_command_all up to the swap of the ActiveTarget: the command on
\* the ActiveTarget, then, with a secondary configured, the swap.
ExecuteCommandAllPrimary ==
    /\ app.pc = "command"
    /\ app.handler \in CompanionHandlers
    /\ \E outs \in AttemptOutcomes(max_attempts) :
         \E r \in {execute_command(current_ip, current_port, outs, NoArg)} :
           /\ IF ~Falsy(secondary_ip)
              THEN /\ current_ip' = secondary_ip
                   /\ current_port' = secondary_port
                   /\ app' = [app EXCEPT !.pc = "swapped", !.primary = r.ok,
                                 !.orig = [ip |-> current_ip, port |-> current_port],
                                 !.issued = Append(@, IssuedCommand("execute_command",
                                               HandlerCommand(app.handler), r))]
              ELSE /\ UNCHANGED <<current_ip, current_port>>
                   /\ app' = [app EXCEPT !.pc = "branch", !.primary = r.ok,
                                 !.ok = r.ok,
                                 !.issued = Append(@, IssuedCommand("execute_command",
                                               HandlerCommand(app.handler), r))]
           /\ last' = [NoCall EXCEPT !.op = "execute_command", !.ok = r.ok,
                          !.trace = r.trace, !.outs = outs, !.n = max_attempts,
                          !.pre = Pre, !.command = HandlerCommand(app.handler),
                          !.cmd = execute_command_cmd(HandlerCommand(app.handler)),
                          !.conn = _connect]
    /\ UNCHANGED <<ssh_config, secondary_ip, secondary_port, username, password,
                   relay_ip, relay_ssh_port, relay_username, relay_password,
                   timeout, max_attempts>>

\* The rest of execute_command_all: the command on the swapped ActiveTarget
\* and the restore of the saved one.
ExecuteCommandAllSecondary ==
    /\ app.pc = "swapped"
    /\ \E outs \in AttemptOutcomes(max_attempts) :
         \E r \in {execute_command(current_ip, current_port, outs, NoArg)} :
           /\ current_ip' = app.orig.ip
           /\ current_port' = app.orig.port
           /\ app' = [app EXCEPT !.pc = "branch", !.ok = app.primary /\ r.ok,
                         !.issued = Append(@, IssuedCommand("execute_command",
                                       HandlerCommand(app.handler), r))]
           /\ last' = [NoCall EXCEPT !.op = "execute_command", !.ok = r.ok,
                          !.trace = r.trace, !.outs = outs, !.n = max_attempts,
                          !.pre = Pre, !.command = HandlerCommand(app.handler),
                          !.cmd = execute_command_cmd(HandlerCommand(app.handler)),
                          !.conn = _connect]
    /\ UNCHANGED <<ssh_config, secondary_ip, secondary_port, username, password,
                   relay_ip, relay_ssh_port, relay_username, relay_password,
                   timeout, max_attempts>>

\* The command of reboot_relay / shutdown_relay.
DisruptiveRelayCommand ==
    /\ app.pc = "command"
    /\ app.handler \in RelayHandlers
    /\ \E outs \in AttemptOutcomes(max_attempts) :
         \E r \in {execute_relay_command(outs, NoArg)} :
           /\ app' = [app EXCEPT !.pc = "branch", !.ok = r.ok,
                         !.issued = Append(@, IssuedCommand("execute_relay_command",
                                       HandlerCommand(app.handler), r))]
           /\ last' = [NoCall EXCEPT !.op = "execute_relay_command", !.ok = r.ok,
                          !.trace = r.trace, !.outs = outs, !.n = max_attempts,
                          !.pre = Pre, !.command = HandlerCommand(app.handler),
                          !.cmd = execute_relay_command_cmd(HandlerCommand(app.handler)),
                          !.conn = execute_relay_command_connect,
                          !.reads = execute_relay_command_reads(NoArg)]
    /\ UNCHANGED exec_state

\* The branch on the command's result.  After a success the handler sleeps
\* and calls refresh_connection_status, which returns at once because the
\* flag is raised; after a failure it restarts the tunnel on the relay.
DisruptiveBranch ==
    /\ app.pc = "branch"
    /\ IF app.ok
       THEN /\ app' = [app EXCEPT !.pc = "restore"]
            /\ last' = [NoCall EXCEPT !.op = "refresh_connection_status",
                           !.value = "skipped", !.pre = Pre]
       ELSE \E outs \in AttemptOutcomes(max_attempts) :
              \E r \in {restart_relay_ssh_tunnel(outs)} :
                /\ app' = [app EXCEPT !.pc = "restore",
                              !.issued = Append(@, IssuedCommand("execute_relay_command",
                                            tunnel_restart_command, r))]
                /\ last' = [NoCall EXCEPT !.op = "execute_relay_command",
                               !.ok = r.ok, !.trace = r.trace, !.outs = outs,
                               !.n = max_attempts, !.pre = Pre,
                               !.command = tunnel_restart_command,
                               !.cmd = execute_relay_command_cmd(tunnel_restart_command),
                               !.conn = execute_relay_command_connect,
                               !.reads = execute_relay_command_reads(NoArg)]
    /\ UNCHANGED exec_state

\* The tail of the handler: the saved policy is written back.
DisruptiveRestore ==
    /\ app.pc = "restore"
    /\ \E p \in {restore_policy} :
         /\ max_attempts' = p.max_attempts
         /\ timeout' = p.timeout
    /\ app' = [app EXCEPT !.pc = "idle", !.issued = <<>>]
    /\ last' = [NoCall EXCEPT !.op = "restore", !.ok = app.ok, !.pre = Pre]
    /\ UNCHANGED <<ssh_config, current_ip, current_port, secondary_ip,
                   secondary_port, username, password, relay_ip,
                   relay_ssh_port, relay_username, relay_password>>

\* int(text) of an entry field: the value of an optionally signed decimal
\* numeral with blanks around it, <<>> where Python raises ValueError.
int(text) ==
    LET s == strip(text)
        signed == s # <<>> /\ s[1] \in {"-", "+"}
        b == IF signed THEN 2 ELSE 1
    IN IF b <= Len(s) /\ DigitsEnd(s, b) = Len(s) + 1
       THEN <<(IF s[1] = "-" THEN -1 ELSE 1) * DigitsValue(s, b, Len(s) + 1)>>
       ELSE <<>>

\* The outcomes a command meets while the main window runs it: the same
\* one on every attempt it makes.
SteadyOutcomes(n) ==
    {s \in AttemptOutcomes(n) : \A i \in 1..n : s[1] \in Completed \/ s[i] = s[1]}

\* The reachability of the endpoints during one connectivity check: each
\* endpoint answers every attempt or none.
SteadyEndpoints ==
    {env \in [Endpoints -> ProbeOutcomes(max_attempts)] :
        \A e \in Endpoints, i \in 1..max_attempts : env[e][i] = env[e][1]}

\* A check that takes every result of test_connection for no endpoint.
reachable_never(reachable_ip) == FALSE

\* `if reachable_ip:` on what test_connection returned.
reachable(reachable_ip) == ~Falsy(reachable_ip)

\* The body both connectivity checks share below their guards: the policy
\* is saved and normalised (int() of an integer is that integer), the
\* connection is tested, the tunnel is restarted when no endpoint answers,
\* and the policy is written back.
ConnectionCheck(op) ==
    \E env \in SteadyEndpoints :
      \E t \in {test_connection(env)} :
        /\ current_ip' = t.ip
        /\ current_port' = t.port
        /\ timeout' = timeout
        /\ max_attempts' = max_attempts
        /\ IF reachable(t.value)
           THEN last' = [NoCall EXCEPT !.op = op, !.ok = TRUE, !.value = t.value,
                            !.probed = t.probed, !.trace = t.trace,
                            !.n = max_attempts, !.pre = Pre]
           ELSE \E outs \in SteadyOutcomes(max_attempts) :
                  \E r \in {restart_relay_ssh_tunnel(outs)} :
                    last' = [NoCall EXCEPT !.op = op, !.ok = FALSE,
                                !.value = t.value, !.probed = t.probed,
                                !.trace = t.trace, !.n = max_attempts, !.pre = Pre,
                                !.sub = <<[op |-> "execute_relay_command",
                                           command |-> tunnel_restart_command,
                                           cmd |-> execute_relay_command_cmd(
                                                       tunnel_restart_command),
                                           conn |-> execute_relay_command_connect,
                                           n |-> max_attempts, outs |-> outs,
                                           ok |-> r.ok, trace |-> r.trace]>>]
        /\ UNCHANGED <<ssh_config, secondary_ip, secondary_port, username,
                       password, relay_ip, relay_ssh_port, relay_username,
                       relay_password>>

\* A connectivity check that returns at its guard.
ConnectionCheckSkipped(op) ==
    /\ last' = [NoCall EXCEPT !.op = op, !.value = "skipped", !.pre = Pre]
    /\ UNCHANGED exec_state

\* refresh_connection_status: at the end of the constructor, on the
\* Refresh button and at the end of apply_ssh_config (pc = "refresh").
RefreshConnectionStatus ==
    /\ app.pc \in {"__init__", "idle", "refresh"}
    /\ app' = [app EXCEPT !.pc = "idle"]
    /\ IF app.is_rebooting_or_shutting_down
       THEN ConnectionCheckSkipped("refresh_connection_status")
       ELSE ConnectionCheck("refresh_connection_status")

\* A guard that looks at the check box only.
periodic_connection_check_guard_box_only == ~app.connection_check_enabled

\* The guard of periodic_connection_check: the check is disabled or a
\* reboot or shutdown was started.
periodic_connection_check_guard ==
    ~app.connection_check_enabled \/ app.is_rebooting_or_shutting_down

\* periodic_connection_check, called by apply_connection_settings
\* (pc = "periodic") or by one of its pending timers; it arms a timer
\* again unless it returned at its guard.
PeriodicConnectionCheck ==
    /\ \/ app.pc = "periodic"
       \/ app.pc = "idle" /\ app.timers > 0
    /\ \E fired \in {IF app.pc = "idle" THEN 1 ELSE 0} :
         IF periodic_connection_check_guard
         THEN /\ app' = [app EXCEPT !.pc = "idle", !.timers = @ - fired]
              /\ ConnectionCheckSkipped("periodic_connection_check")
         ELSE /\ app' = [app EXCEPT !.pc = "idle", !.timers = @ - fired + 1,
                                     !.singleShot = <<app.connection_check_interval>>]
              /\ ConnectionCheck("periodic_connection_check")

\* The most single-shot timers of the periodic check pending at once.
MaxTimers == 2

\* What the entry fields of the connection settings page can hold.
IntervalEntries == {<<"3", "0">>, <<"0">>, <<"a", "b", "c">>}
TimeoutEntries == {<<" ", "1", "0">>, <<"0">>, <<"5", "s">>}
MaxAttemptsEntries == {<<"2">>, <<"-", "1">>, <<>>}

\* Milliseconds of a second.
MsPerSecond == 1000

\* The spin box of the poll interval, in seconds.
DefaultSpin == 60

\* The Wi-Fi temperature block the Apply handlers share, on the settings:
\* the check box and the spin box are stored.
apply_wifi_temp_settings(cfg, temp_box, spin) ==
    [cfg EXCEPT !.temp_poll_enabled = <<temp_box>>,
                !.temp_poll_ms = <<spin * MsPerSecond>>]

\* set_enabled and set_interval_ms as that block calls them on poller w.
set_enabled_set_interval_ms(w, temp_box, spin) ==
    [w EXCEPT !._enabled = temp_box,
              !._interval_ms = clamp_interval_ms(spin * MsPerSecond),
              !.cycles = 0]

\* apply_connection_settings that takes the entries as they convert.
apply_connection_settings_unvalidated(box, interval_entry, timeout_entry, max_attempts_entry, temp_box, spin) ==
    LET interval_sec == int(interval_entry)
        timeout_sec == int(timeout_entry)
        attempts == int(max_attempts_entry)
        cfg0 == [ssh_config EXCEPT !.connection_check_enabled = box]
        none == [stage |-> 0, ssh_config |-> cfg0,
                 connection_check_interval |-> app.connection_check_interval,
                 timeout |-> timeout, max_attempts |-> max_attempts,
                 wifi_temp_enabled |-> app.wifi_temp_enabled,
                 wifi_temp_poll_ms |-> app.wifi_temp_poll_ms,
                 file |-> app.file]
    IN IF interval_sec = <<>> \/ timeout_sec = <<>> \/ attempts = <<>> THEN none
       ELSE LET cfg3 == apply_wifi_temp_settings(
                                [cfg0 EXCEPT !.connection_check_interval =
                                                 interval_sec[1] * MsPerSecond],
                                temp_box, spin)
            IN [none EXCEPT !.stage = 3, !.ssh_config = cfg3, !.file = cfg3,
                   !.connection_check_interval = interval_sec[1] * MsPerSecond,
                   !.timeout = timeout_sec[1], !.max_attempts = attempts[1],
                   !.wifi_temp_enabled = temp_box,
                   !.wifi_temp_poll_ms = spin * MsPerSecond]

\* apply_connection_settings on the content of the page: the check box is
\* stored first, then each entry is converted and validated in turn and
\* takes effect before the next one is looked at; the handler returns at
\* the first entry it rejects.  `stage` counts the entries that passed.
apply_connection_settings(box, interval_entry, timeout_entry, max_attempts_entry, temp_box, spin) ==
    LET interval_sec == int(interval_entry)
        timeout_sec == int(timeout_entry)
        attempts == int(max_attempts_entry)
        cfg0 == [ssh_config EXCEPT !.connection_check_enabled = box]
        none == [stage |-> 0, ssh_config |-> cfg0,
                 connection_check_interval |-> app.connection_check_interval,
                 timeout |-> timeout, max_attempts |-> max_attempts,
                 wifi_temp_enabled |-> app.wifi_temp_enabled,
                 wifi_temp_poll_ms |-> app.wifi_temp_poll_ms,
                 file |-> app.file]
    IN IF interval_sec = <<>> \/ interval_sec[1] <= 0 THEN none
       ELSE LET cfg1 == [cfg0 EXCEPT !.connection_check_interval =
                                         interval_sec[1] * MsPerSecond]
                one == [none EXCEPT !.stage = 1, !.ssh_config = cfg1,
                           !.connection_check_interval =
                               interval_sec[1] * MsPerSecond]
            IN IF timeout_sec = <<>> \/ timeout_sec[1] <= 0 THEN one
               ELSE LET two == [one EXCEPT !.stage = 2, !.timeout = timeout_sec[1]]
                    IN IF attempts = <<>> \/ attempts[1] <= 0 THEN two
                       ELSE LET cfg3 == apply_wifi_temp_settings(cfg1, temp_box, spin)
                            IN [two EXCEPT !.stage = 3,
                                   !.max_attempts = attempts[1],
                                   !.wifi_temp_enabled = temp_box,
                                   !.wifi_temp_poll_ms = spin * MsPerSecond,
                                   !.ssh_config = cfg3, !.file = cfg3]

\* The Apply button of the connection settings page, the page holding
\* one of the given contents.  With the settings accepted the poller is
\* told its settings, and with the check enabled too the handler goes on
\* to periodic_connection_check.
ApplyConnectionSettingsOn(intervals, timeouts, attempts, temp_boxes, spins) ==
    /\ app.pc = "idle"
    /\ \E box \in BOOLEAN, temp_box \in temp_boxes, interval_entry \in intervals,
          timeout_entry \in timeouts, max_attempts_entry \in attempts, spin \in spins :
         \E r \in {apply_connection_settings(box, interval_entry, timeout_entry,
                                             max_attempts_entry, temp_box, spin)} :
           /\ (r.stage = 3 /\ box) => app.timers < MaxTimers
           /\ ssh_config' = r.ssh_config
           /\ timeout' = r.timeout
           /\ max_attempts' = r.max_attempts
           /\ app' = [app EXCEPT
                         !.pc = IF r.stage = 3 /\ box THEN "periodic" ELSE "idle",
                         !.connection_check_enabled = box,
                         !.connection_check_interval = r.connection_check_interval,
                         !.wifi_temp_enabled = r.wifi_temp_enabled,
                         !.wifi_temp_poll_ms = r.wifi_temp_poll_ms,
                         !.wifi_temp_poller =
                             IF r.stage = 3
                             THEN set_enabled_set_interval_ms(@, temp_box, spin)
                             ELSE @,
                         !.file = r.file,
                         !.accepted = IF r.stage = 3
                                      THEN <<[timeout |-> r.timeout,
                                              max_attempts |-> r.max_attempts]>>
                                      ELSE @]
           /\ last' = [NoCall EXCEPT !.op = "apply_connection_settings",
                          !.ok = (r.stage = 3), !.n = r.stage, !.pre = Pre]
    /\ UNCHANGED <<current_ip, current_port, secondary_ip, secondary_port,
                   username, password, relay_ip, relay_ssh_port, relay_username,
                   relay_password>>

ApplyConnectionSettings ==
    ApplyConnectionSettingsOn(IntervalEntries, TimeoutEntries, MaxAttemptsEntries,
                              {TRUE}, {DefaultSpin})

\* What the page of the companion settings can hold, each text stripped:
\* the primary and the secondary endpoint, the user and the password.
PrimaryEntries == {<<"10.5.6.100", "2222">>, <<"10.5.6.101", "22">>}
SecondaryEntries == {<<"", "22">>, <<"10.5.6.101", "22">>, <<"10.5.6.100", "2222">>}
UsernameEntries == {"roz"}
PasswordEntries == {"", "companion_pw"}

\* apply_ssh_config on the content of the page, up to its call of
\* refresh_connection_status: what it leaves in the settings and in the
\* executor.  The executor's secondary_ip and secondary_port are not
\* among the attributes it assigns.
apply_ssh_config(primary_entry, secondary_entry, username_entry, password_entry, temp_box, spin) ==
    [ssh_config |-> apply_wifi_temp_settings(
                        [ssh_config EXCEPT !.primary_ip = primary_entry[1],
                                           !.primary_port = primary_entry[2],
                                           !.secondary_ip = secondary_entry[1],
                                           !.secondary_port = secondary_entry[2]],
                        temp_box, spin),
     username |-> username_entry,
     password |-> IF password_entry # "" THEN password_entry ELSE password,
     current_ip |-> primary_entry[1],
     current_port |-> primary_entry[2],
     secondary_ip |-> secondary_ip,
     secondary_port |-> secondary_port]

\* The Apply button of the companion settings page; the handler goes on
\* to refresh_connection_status.
ApplySshConfigOn(temp_boxes, spins) ==
    /\ app.pc = "idle"
    /\ \E primary_entry \in PrimaryEntries, secondary_entry \in SecondaryEntries,
          username_entry \in UsernameEntries, password_entry \in PasswordEntries,
          temp_box \in temp_boxes, spin \in spins :
         \E r \in {apply_ssh_config(primary_entry, secondary_entry, username_entry,
                                     password_entry, temp_box, spin)} :
           /\ ssh_config' = r.ssh_config
           /\ username' = r.username
           /\ password' = r.password
           /\ current_ip' = r.current_ip
           /\ current_port' = r.current_port
           /\ secondary_ip' = r.secondary_ip
           /\ secondary_port' = r.secondary_port
           /\ app' = [app EXCEPT !.pc = "refresh",
                         !.wifi_temp_enabled = temp_box,
                         !.wifi_temp_poll_ms = spin * MsPerSecond,
                         !.wifi_temp_poller =
                             set_enabled_set_interval_ms(@, temp_box, spin),
                         !.file = r.ssh_config]
           /\ last' = [NoCall EXCEPT !.op = "apply_ssh_config", !.ok = TRUE,
                          !.pre = Pre]
    /\ UNCHANGED <<relay_ip, relay_ssh_port, relay_username, relay_password,
                   timeout, max_attempts>>

ApplySshConfig == ApplySshConfigOn({TRUE}, {DefaultSpin})

\* What the remote reads of a background temperature read deliver.
PollerIface == <<Delivered(<<"w", "l", "a", "n", "0", "\n">>), Delivered(<<>>)>>
PollerThermal ==
    <<"t", "e", "m", "p", "e", "r", "a", "t", "u", "r", "e", ":", " ", "4", "5">>

\* One round of WifiTempPoller.run in its own thread: the read happens
\* whenever the poller is enabled, wherever the UI thread is.
PollWifiTemperature ==
    /\ app.wifi_temp_enabled
    /\ GetWifiModuleTemperature(ConnectOutcomes, {PollerIface},
                                {Delivered(PollerThermal)}, {Delivered(<<>>)},
                                {Delivered(<<>>)})

\* A poller that reads whatever its flag says.
poller_enabled_always(w) == TRUE

\* `if self._enabled:` at the top of a round of run.
poller_enabled(w) == w._enabled

\* The top of a round of WifiTempPoller.run: the flag is tested.
PollerCycle ==
    /\ app.wifi_temp_poller.pc = "cycle"
    /\ app' = [app EXCEPT
                  !.wifi_temp_poller.pc =
                      IF poller_enabled(app.wifi_temp_poller) THEN "read" ELSE "wait",
                  !.wifi_temp_poller.cycles = IF @ < MaxCycles THEN @ + 1 ELSE @]
    /\ last' = [NoCall EXCEPT !.op = "run", !.value = "cycle",
                   !.ok = poller_enabled(app.wifi_temp_poller), !.pre = Pre]
    /\ UNCHANGED exec_state

\* The read of a round in which the flag was set.
PollerRead ==
    /\ app.wifi_temp_poller.pc = "read"
    /\ ReadWifiModuleTemperature({"ok", "transport"}, {PollerIface},
                                 {Delivered(PollerThermal)}, {Delivered(<<>>)},
                                 {Delivered(<<>>)})
    /\ app' = [app EXCEPT !.wifi_temp_poller.pc = "wait"]
    /\ UNCHANGED exec_state

\* The wait of a round begins: `remaining` is computed from the interval.
\* It is kept in ms here.
PollerWait ==
    /\ app.wifi_temp_poller.pc = "wait"
    /\ app' = [app EXCEPT !.wifi_temp_poller.pc = "sleep",
                          !.wifi_temp_poller.remaining =
                              app.wifi_temp_poller._interval_ms]
    /\ last' = [NoCall EXCEPT !.op = "run", !.value = "wait",
                   !.n = app.wifi_temp_poller._interval_ms, !.pre = Pre]
    /\ UNCHANGED exec_state

\* The wait ends after the chunks that make up `remaining`.
PollerSleep ==
    /\ app.wifi_temp_poller.pc = "sleep"
    /\ app' = [app EXCEPT !.wifi_temp_poller.pc = "cycle"]
    /\ last' = [NoCall EXCEPT !.op = "run", !.value = "sleep",
                   !.n = app.wifi_temp_poller.remaining, !.pre = Pre]
    /\ UNCHANGED exec_state

\* The contents of the connection settings page while the loops are
\* watched: two intervals, the policy as it is, both check boxes, two
\* waits.
PollIntervalEntries == {<<"5">>, <<"3", "0">>}
PollTimeoutEntries == {<<"5">>}
PollMaxAttemptsEntries == {<<"3">>}
PollSpins == {1, DefaultSpin}

PollApplyConnectionSettings ==
    ApplyConnectionSettingsOn(PollIntervalEntries, PollTimeoutEntries,
                              PollMaxAttemptsEntries, BOOLEAN, PollSpins)

\* The most worker threads at one time.
MaxWorkers == 2

\* update_wifi_temp without the test of its flag.
update_wifi_temp_unguarded(busy) == TRUE

\* update_wifi_temp (main.py): whether it goes on to start a worker.
update_wifi_temp(busy) == ~busy

\* update_wifi_temp on a tick of temp_timer or from a connectivity check:
\* the flag is set and a worker is started, unless the flag is set.
UpdateWifiTemp ==
    /\ IF update_wifi_temp(app._wifi_temp_busy)
       THEN /\ app.workers < MaxWorkers
            /\ app' = [app EXCEPT !._wifi_temp_busy = TRUE, !.workers = @ + 1]
            /\ last' = [NoCall EXCEPT !.op = "update_wifi_temp",
                           !.value = "started", !.pre = Pre]
       ELSE /\ app' = app
            /\ last' = [NoCall EXCEPT !.op = "update_wifi_temp",
                           !.value = "skipped", !.pre = Pre]
    /\ UNCHANGED exec_state

\* WifiTempWorker.run in its thread: the read, then temp_ready; the
\* thread's finished signal is queued for the UI thread when run returns.
WifiTempWorkerRun ==
    /\ app.workers > 0
    /\ ReadWifiModuleTemperature(ConnectOutcomes, IfaceReads,
                                 Reads(ThermalStateTexts), Reads(WfbCliTexts),
                                 Reads(SysfsTexts))
    /\ app' = [app EXCEPT !.workers = @ - 1, !.finished = @ + 1]
    /\ UNCHANGED exec_state

\* _on_wifi_temp_finished in the UI thread: the flag is cleared.
OnWifiTempFinished ==
    /\ app.finished > 0
    /\ app' = [app EXCEPT !._wifi_temp_busy = FALSE, !.finished = @ - 1]
    /\ last' = [NoCall EXCEPT !.op = "_on_wifi_temp_finished", !.pre = Pre]
    /\ UNCHANGED exec_state

\* The executor and the main window constructed anew from the settings
\* file: the application is closed and started again.
RestartApplication ==
    /\ app.pc = "idle"
    /\ ssh_config' = app.file
    /\ current_ip' = ssh_config'.primary_ip
    /\ current_port' = ssh_config'.primary_port
    /\ secondary_ip' = ssh_config'.secondary_ip
    /\ secondary_port' = ssh_config'.secondary_port
    /\ username' = "roz"
    /\ password' = "default_password"
    /\ relay_ip' = ssh_config'.relay_ip
    /\ relay_ssh_port' = ssh_config'.relay_ssh_port
    /\ relay_username' = "vind-admin"
    /\ relay_password' = "default_password"
    /\ timeout' = DefaultTimeout
    /\ max_attempts' = DefaultMaxAttempts
    /\ app' = [DroneControlApp(app.file) EXCEPT !.accepted = app.accepted]
    /\ last' = [NoCall EXCEPT !.op = "__init__", !.pre = Pre]

----------------------------------------------------------------------------
Next ==
    \/ CallTestConnection
    \/ CallExecuteCommand
    \/ CallExecuteCommandCapture
    \/ CallExecuteCommandAll
    \/ CallExecuteRelayCommand
    \/ CallTransferFile

Spec == Init /\ [][Next]_vars

\* The command methods with the command text and the account secrets varied.
SessionArgs == {NoArg, <<1>>}
SessionExecuteCommand == ExecuteCommand(Commands, SessionArgs)
SessionExecuteCommandCapture == ExecuteCommandCapture(Commands, SessionArgs)
SessionExecuteRelayCommand == ExecuteRelayCommand(Commands, SessionArgs)

NextSession ==
    \/ SessionExecuteCommand
    \/ SessionExecuteCommandCapture
    \/ SessionExecuteRelayCommand

SpecSession == InitSession /\ [][NextSession]_vars

\* Construction for the temperature reads: the defaults, with the Wi-Fi
\* interface of the settings file present or empty.
InitTemp ==
    /\ ssh_config \in {[_default_config EXCEPT !.wifi_iface = w] :
                          w \in {<<>>, wlx782288d993c0}}
    /\ current_ip = ssh_config.primary_ip
    /\ current_port = ssh_config.primary_port
    /\ secondary_ip = ssh_config.secondary_ip
    /\ secondary_port = ssh_config.secondary_port
    /\ username = "roz"
    /\ password = "default_password"
    /\ relay_ip = ssh_config.relay_ip
    /\ relay_ssh_port = ssh_config.relay_ssh_port
    /\ relay_username = "vind-admin"
    /\ relay_password = "default_password"
    /\ timeout = DefaultTimeout
    /\ max_attempts = DefaultMaxAttempts
    /\ last = NoCall
    /\ app = DroneControlApp(ssh_config)

NextTemp ==
    \/ CallGetWifiModuleTemperature
    \/ CallGetWifiModuleTemperatureV11

SpecTemp == InitTemp /\ [][NextTemp]_vars

\* The reachability prober called on its own.
NextReach == CallIsReachable

SpecReach == Init /\ [][NextReach]_vars

\* The main window on top of the executor: the UI thread runs one handler
\* at a time, step by step, and the poller thread reads the temperature in
\* between.
InitApp ==
    /\ ssh_config \in {[_default_config EXCEPT !.secondary_ip = s] :
                          s \in SecondaryIps}
    /\ current_ip = ssh_config.primary_ip
    /\ current_port = ssh_config.primary_port
    /\ secondary_ip = ssh_config.secondary_ip
    /\ secondary_port = ssh_config.secondary_port
    /\ username = "roz"
    /\ password = "default_password"
    /\ relay_ip = ssh_config.relay_ip
    /\ relay_ssh_port = ssh_config.relay_ssh_port
    /\ relay_username = "vind-admin"
    /\ relay_password = "default_password"
    /\ timeout = DefaultTimeout
    /\ max_attempts = DefaultMaxAttempts
    /\ last = NoCall
    /\ app = DroneControlApp(ssh_config)

NextApp ==
    \/ RefreshConnectionStatus
    \/ PeriodicConnectionCheck
    \/ ApplyConnectionSettings
    \/ DisruptiveOverride
    \/ ExecuteCommandAllPrimary
    \/ ExecuteCommandAllSecondary
    \/ DisruptiveRelayCommand
    \/ DisruptiveBranch
    \/ DisruptiveRestore
    \/ PollWifiTemperature
    \/ RestartApplication

SpecApp == InitApp /\ [][NextApp]_vars

\* The companion settings page of the main window: the settings are
\* applied, the connection is checked, the application is started again.
NextTarget ==
    \/ ApplySshConfig
    \/ RefreshConnectionStatus
    \/ RestartApplication

SpecTarget == InitApp /\ [][NextTarget]_vars

\* The two polling loops of the main window and the settings page that
\* steers them: the poller thread runs beside the UI thread.
NextPoll ==
    \/ RefreshConnectionStatus
    \/ PollApplyConnectionSettings
    \/ PeriodicConnectionCheck
    \/ PollerCycle
    \/ PollerRead
    \/ PollerWait
    \/ PollerSleep

InitPoll == InitApp /\ ssh_config.secondary_ip = "10.5.6.101"

SpecPoll == InitPoll /\ [][NextPoll]_vars

\* The temperature reads of main.py: the UI thread starts workers and
\* takes their finished signals, the workers read in between.
NextWorker ==
    \/ UpdateWifiTemp
    \/ WifiTempWorkerRun
    \/ OnWifiTempFinished

SpecWorker == InitApp /\ [][NextWorker]_vars
----------------------------------------------------------------------------
(* Properties *)

ExecOps == {"execute_command", "execute_command_capture", "execute_relay_command"}

\* The endpoint a call was addressed to and its secret, as they were when
\* the call started.
TargetHost(l) == IF l.op = "execute_relay_command" THEN l.pre.relay_ip ELSE l.pre.ip
TargetSecret(l) ==
    IF l.op = "execute_relay_command" THEN l.pre.relay_password ELSE l.pre.password
Configured(l) == ~Falsy(TargetHost(l)) /\ ~Falsy(TargetSecret(l))

\* The connection attempts and the sleeps of a trace, in order.
IsAttemptOrSleep(e) == e \in {"connect", "sleep"}
Rhythm(t) == SelectSeq(t, IsAttemptOrSleep)

\* k attempts with one sleep between each two and none after the last.
SleepsOnlyBetween(t, k) ==
    /\ Len(Rhythm(t)) = 2 * k - 1
    /\ \A i \in 1..(2 * k - 1) :
          Rhythm(t)[i] = (IF i % 2 = 1 THEN "connect" ELSE "sleep")

ActiveTargetUnchanged == current_ip = last.pre.ip /\ current_port = last.pre.port

PolicyUnchanged ==
    timeout = last.pre.timeout /\ max_attempts = last.pre.max_attempts

\* C1: of two consecutive test_connection calls, when the first found the
\* primary unreachable and returned the secondary and the second finds the
\* primary reachable, the second returns the primary endpoint.
C1_NoStickiness ==
    [][(/\ last.op = "test_connection"
        /\ ~last.primUp /\ last.secUp
        /\ last.value = secondary_ip
        /\ last'.op = "test_connection"
        /\ last'.primUp)
       => last'.value = ssh_config.primary_ip]_vars

\* C2: test_connection with the primary failing every probe and a configured
\* secondary reachable returns the secondary's host and leaves ActiveTarget
\* equal to the secondary's host and port.
C2_SecondaryFailover ==
    (last.op = "test_connection" /\ ~last.primUp /\ last.secUp)
    => /\ last.value = secondary_ip
       /\ current_ip = secondary_ip
       /\ current_port = secondary_port

C2_Witness ==
    /\ last.op = "test_connection"
    /\ ~last.primUp /\ last.secUp
    /\ last.pre.ip = ssh_config.primary_ip
    /\ ~Falsy(last.pre.ip)
    /\ Count(last.trace, "probe") > last.n
    /\ current_ip = secondary_ip
    /\ current_ip # last.pre.ip

\* C3: test_connection with the primary reachable returns the primary
\* endpoint, does not probe the secondary and leaves ActiveTarget unchanged.
C3_PrimaryPreferred ==
    (last.op = "test_connection" /\ last.primUp)
    => /\ last.value = ssh_config.primary_ip
       /\ \A i \in 1..Len(last.probed) :
             last.probed[i] # <<secondary_ip, secondary_port>>
       /\ ActiveTargetUnchanged

\* C4: test_connection returns None exactly when the primary is unreachable
\* and the secondary is not configured or unreachable, then leaving
\* ActiveTarget unchanged; ActiveTarget changes only when the primary is
\* unreachable and the secondary reachable.
C4_NoneExactly ==
    (last.op = "test_connection")
    => /\ (last.value = None) <=> (~last.primUp /\ ~last.secUp)
       /\ (last.value = None) => ActiveTargetUnchanged
       /\ ~ActiveTargetUnchanged => (~last.primUp /\ last.secUp)

\* C5: an execute call of N attempts that all fail at the transport level
\* makes exactly N connection attempts, sleeps exactly N - 1 times, once
\* between each two consecutive attempts and never after the last, and
\* returns failure.
C5_RetryExactly ==
    (/\ last.op \in ExecOps
     /\ Configured(last)
     /\ \A i \in 1..last.n : last.outs[i] = "transport")
    => /\ Count(last.trace, "connect") = last.n
       /\ Count(last.trace, "sleep") = last.n - 1
       /\ SleepsOnlyBetween(last.trace, last.n)
       /\ ~last.ok

C5_Witness ==
    /\ last.op = "execute_command"
    /\ Configured(last)
    /\ last.n = DefaultMaxAttempts
    /\ \A i \in 1..last.n : last.outs[i] = "transport"
    /\ Count(last.trace, "sleep") = 2
    /\ ~last.ok

\* C6: the first attempt of an execute call on which the remote command
\* completes decides the result, success for exit status 0 and failure
\* otherwise, and is the last event of the call: no later attempt, no sleep.
C6_FirstCompletionDecides ==
    \A k \in 1..last.n :
        (/\ last.op \in ExecOps
         /\ Configured(last)
         /\ last.outs[k] \in Completed
         /\ \A i \in 1..(k - 1) : last.outs[i] \notin Completed)
        => /\ last.ok = (last.outs[k] = "exit0")
           /\ Count(last.trace, "connect") = k
           /\ Count(last.trace, "sleep") = k - 1
           /\ last.trace[Len(last.trace)] = "close"

C6_Witness ==
    /\ last.op = "execute_command"
    /\ Configured(last)
    /\ last.n = DefaultMaxAttempts
    /\ last.outs[1] = "exitN"
    /\ ~last.ok
    /\ Count(last.trace, "connect") = 1
    /\ Count(last.trace, "sleep") = 0

\* C7: rejected credentials are retried like transport failures: a call
\* whose attempts all fail, at least one of them on authentication, makes
\* every one of its N attempts with a sleep between each two and none after
\* the last, and returns failure.
C7_AuthRetried ==
    (/\ last.op \in ExecOps
     /\ Configured(last)
     /\ \A i \in 1..last.n : last.outs[i] \in {"auth", "transport"}
     /\ \E i \in 1..last.n : last.outs[i] = "auth")
    => /\ Count(last.trace, "connect") = last.n
       /\ SleepsOnlyBetween(last.trace, last.n)
       /\ ~last.ok

C7_Witness ==
    /\ last.op = "execute_command"
    /\ Configured(last)
    /\ last.n = DefaultMaxAttempts
    /\ \A i \in 1..last.n : last.outs[i] = "auth"
    /\ Count(last.trace, "connect") = DefaultMaxAttempts
    /\ ~last.ok

\* C8: a command or transfer whose target has an empty host or an empty
\* secret returns its failure value with no session, no retry and no sleep,
\* and leaves ActiveTarget and the execution policy unchanged.
C8_FailFast ==
    (/\ last.op \in ExecOps \cup {"transfer_file"}
     /\ ~Configured(last))
    => /\ ~last.ok
       /\ last.trace = <<>>
       /\ last.op = "execute_command_capture" => last.cap = <<FALSE, "", "no ip/password", -1>>
       /\ last.op = "transfer_file" => last.cap = <<FALSE, None>>
       /\ ActiveTargetUnchanged
       /\ PolicyUnchanged

C8_Witness ==
    /\ last.op = "execute_command"
    /\ Falsy(last.pre.ip)
    /\ last.outs[1] = "exit0"
    /\ ~last.ok
    /\ last.trace = <<>>

\* C9: execute_command_all succeeds exactly when every sub-execution it ran
\* succeeded; it runs two sub-executions with a secondary configured and
\* one, whose result it returns, without.
C9_AllSucceed ==
    (last.op = "execute_command_all")
    => /\ Len(last.sub) = (IF Falsy(secondary_ip) THEN 1 ELSE 2)
       /\ last.ok <=> (\A i \in 1..Len(last.sub) : last.sub[i].ok)

C9_Witness ==
    /\ last.op = "execute_command_all"
    /\ Len(last.sub) = 2
    /\ last.sub[1].ok
    /\ ~last.sub[2].ok
    /\ ~last.ok

\* C10: after execute_command_all ActiveTarget equals its value before the
\* call, whatever the results of the sub-executions.
C10_TargetRestored ==
    (last.op = "execute_command_all") => ActiveTargetUnchanged

C10_Witness ==
    /\ last.op = "execute_command_all"
    /\ Len(last.sub) = 2
    /\ last.sub[2].target # <<last.pre.ip, last.pre.port>>
    /\ Count(last.sub[2].trace, "connect") > 0
    /\ ~last.sub[2].ok
    /\ ActiveTargetUnchanged

\* C11: execute_command_all runs the command once against the primary
\* companion configuration and, with a secondary configured, once against
\* the secondary.
C11_BothConfigurations ==
    (last.op = "execute_command_all")
    => /\ last.sub[1].target = <<ssh_config.primary_ip, ssh_config.primary_port>>
       /\ ~Falsy(secondary_ip)
             => /\ Len(last.sub) = 2
                /\ last.sub[2].target = <<secondary_ip, secondary_port>>

\* The index of the first successful attempt of a probe, 0 when none.
FirstSuccess(outs, n) ==
    IF \E i \in 1..n : outs[i]
    THEN CHOOSE i \in 1..n : outs[i] /\ \A j \in 1..(i - 1) : ~outs[j]
    ELSE 0

\* C13: is_reachable returns true exactly when one of its at most
\* max_attempts attempts succeeds, makes no attempt after the first
\* success, and returns false only after max_attempts failed attempts.
C13_ReachableIff ==
    (last.op = "is_reachable")
    => /\ last.ok <=> (\E i \in 1..last.n : last.outs[i])
       /\ last.ok => Count(last.trace, "probe") = FirstSuccess(last.outs, last.n)
       /\ ~last.ok => Count(last.trace, "probe") = last.n

C13_Witness ==
    /\ last.op = "is_reachable"
    /\ last.n = 3
    /\ last.outs = <<FALSE, TRUE, TRUE>>
    /\ last.ok
    /\ Count(last.trace, "probe") = 2

\* k probes with one sleep after each but the last.
ProbesThenSleeps(t, k) ==
    /\ Len(t) = 2 * k - 1
    /\ \A i \in 1..(2 * k - 1) : t[i] = (IF i % 2 = 1 THEN "probe" ELSE "sleep")

\* C14: is_reachable sleeps only after a failed attempt that is not the
\* last: k - 1 times when the first success is on attempt k, max_attempts - 1
\* times when every attempt fails, never after a success or the last attempt.
C14_SleepOnlyBetween ==
    (last.op = "is_reachable")
    => /\ last.ok => /\ Count(last.trace, "sleep") = FirstSuccess(last.outs, last.n) - 1
                     /\ ProbesThenSleeps(last.trace, FirstSuccess(last.outs, last.n))
       /\ ~last.ok => /\ Count(last.trace, "sleep") = last.n - 1
                      /\ ProbesThenSleeps(last.trace, last.n)

C14_Witness ==
    /\ last.op = "is_reachable"
    /\ last.n = 3
    /\ \A i \in 1..3 : ~last.outs[i]
    /\ ~last.ok
    /\ last.trace = <<"probe", "sleep", "probe", "sleep", "probe">>

\* C17: transfer_file on a configured target opens one session whatever
\* max_attempts is, never sleeps, closes the session on every path and
\* returns (True, local_path) exactly when the connect, the opening of the
\* file-transfer channel and the copy all succeed, (False, None) otherwise.
C17_TransferOnce ==
    (last.op = "transfer_file" /\ Configured(last))
    => /\ Count(last.trace, "connect") = 1
       /\ Count(last.trace, "sleep") = 0
       /\ Count(last.trace, "close") = 1
       /\ last.trace[Len(last.trace)] = "close"
       /\ (last.cap = <<TRUE, "local_path">>) <=> (last.outs[1] = "ok")
       /\ (last.outs[1] # "ok") => last.cap = <<FALSE, None>>

C17_Witness ==
    /\ last.op = "transfer_file"
    /\ Configured(last)
    /\ last.pre.max_attempts = DefaultMaxAttempts
    /\ last.outs[1] = "get_error"
    /\ last.cap = <<FALSE, None>>
    /\ Count(last.trace, "connect") = 1

\* The piped elevation of a command: the secret echoed into sudo -S followed
\* by the command without its five-character prefix.
Piped(secret, command) ==
    <<"e", "c", "h", "o", " ", secret,
      " ", "|", " ", "s", "u", "d", "o", " ", "-", "S", " ">>
    \o SubSeq(command, 6, Len(command))

C15_CaptureResult ==
    (last.op = "execute_command_capture" /\ Configured(last))
    => IF \E i \in 1..last.n : last.outs[i] \in Completed
       THEN /\ last.cap[1] <=> (last.res.status = 0)
            /\ last.cap[2] = last.res.out
            /\ last.cap[3] = last.res.err
            /\ last.cap[4] = last.res.status
       ELSE last.cap = <<FALSE, "", "max attempts exceeded", -1>>

C15_Witness ==
    /\ last.op = "execute_command_capture"
    /\ Configured(last)
    /\ last.n = 3
    /\ last.outs[1] = "transport"
    /\ last.outs[2] = "exitN"
    /\ last.cap = <<FALSE, "", "not found", 127>>

\* The executor attributes the companion calls read.
CompanionAttributes == UNION {execute_command_reads(a) : a \in AttemptArgs}

\* What a relay call leaves alone: ActiveTarget and the companion account.
RelayFrame ==
    /\ ActiveTargetUnchanged
    /\ username = last.pre.username
    /\ password = last.pre.password

\* The relay session is opened with the relay's host, port and account.
RelayConnect ==
    /\ last.conn.host = last.pre.relay_ip
    /\ last.conn.port = relay_ssh_port
    /\ last.conn.username = last.pre.relay_username
    /\ last.conn.password = last.pre.relay_password

\* C16 as stated: execute_relay_command connects only with the relay's
\* host, port, username and secret, reads no credential or policy attribute
\* that the companion calls read, and leaves ActiveTarget and the companion
\* credentials unchanged.
C16_FullyIndependent ==
    (last.op = "execute_relay_command" /\ Count(last.trace, "connect") > 0)
    => /\ RelayConnect
       /\ last.reads \cap CompanionAttributes = {}
       /\ RelayFrame

\* C16: execute_relay_command connects only with the relay's host, port,
\* username and secret, shares with the companion calls nothing but the
\* executor's single timeout and max_attempts, which it uses as its own
\* policy, and leaves ActiveTarget and the companion credentials unchanged
\* for every outcome.
C16_RelayFrame ==
    (last.op = "execute_relay_command")
    => /\ RelayFrame
       /\ Count(last.trace, "connect") > 0
             => /\ RelayConnect
                /\ last.conn.timeout = last.pre.timeout
                /\ "timeout" \in last.reads
                /\ last.reads \cap CompanionAttributes \subseteq {"timeout", "max_attempts"}
       /\ "max_attempts" \in last.reads => last.n = last.pre.max_attempts

C16_Witness ==
    /\ last.op = "execute_relay_command"
    /\ Count(last.trace, "connect") = DefaultMaxAttempts
    /\ ~last.ok
    /\ last.pre.password # last.pre.relay_password
    /\ last.conn.password = "relay_pw"
    /\ last.conn.username = "vind-admin"
    /\ last.reads \cap CompanionAttributes = {"timeout", "max_attempts"}

TempOps == {"get_wifi_module_temperature", "get_wifi_module_temperature_v1_1"}

\* The position of an event in a trace, 0 when it is absent.
IndexOf(t, e) ==
    IF \E i \in 1..Len(t) : t[i] = e THEN CHOOSE i \in 1..Len(t) : t[i] = e ELSE 0
Issued(e) == IndexOf(last.trace, e) # 0

\* C18: the tiers of the cascade run in the order A, B, C; the command of
\* a tier is issued only if no earlier tier produced an in-range reading,
\* and the reading of the first tier that yields one is returned with no
\* later command issued.
C18_TierOrder ==
    (last.op = "get_wifi_module_temperature")
    => /\ \A e \in {"tier_a", "tier_b", "tier_c"} : Count(last.trace, e) <= 1
       /\ (Issued("tier_a") /\ Issued("tier_b"))
             => IndexOf(last.trace, "tier_a") < IndexOf(last.trace, "tier_b")
       /\ Issued("tier_c")
             => /\ Issued("tier_b")
                /\ IndexOf(last.trace, "tier_b") < IndexOf(last.trace, "tier_c")
       /\ Issued("tier_b") => tier_a(last.texts.a) = <<>>
       /\ Issued("tier_c") => tier_a(last.texts.a) = <<>> /\ tier_b(last.texts.b) = <<>>
       /\ (Issued("tier_a") /\ tier_a(last.texts.a) # <<>>)
             => /\ last.temp = tier_a(last.texts.a)
                /\ ~Issued("tier_b") /\ ~Issued("tier_c")
       /\ (Issued("tier_b") /\ tier_b(last.texts.b) # <<>>)
             => /\ last.temp = tier_b(last.texts.b)
                /\ ~Issued("tier_c")

C18_Witness ==
    /\ last.op = "get_wifi_module_temperature"
    /\ Issued("tier_a") /\ Issued("tier_b") /\ ~Issued("tier_c")
    /\ last.texts.a # <<>>
    /\ tier_a(last.texts.a) = <<>>
    /\ last.temp = <<63000>>

\* C19: every value get_wifi_module_temperature returns, in the cascade of
\* v1.3 and in the linear-transform variant of v1.1, from whichever tier,
\* lies in [-40, 130] degrees Celsius.
C19_ReturnedInRange ==
    (last.op \in TempOps /\ last.temp # <<>>)
    => /\ clamp_min * Milli <= last.temp[1]
       /\ last.temp[1] <= clamp_max * Milli

C19_Witness ==
    /\ last.op = "get_wifi_module_temperature"
    /\ Issued("tier_c")
    /\ last.texts.c = <<"9", "9", "9", "9">>
    /\ last.temp = <<10000>>

C19_WitnessLegacy ==
    /\ last.op = "get_wifi_module_temperature_v1_1"
    /\ last.texts.a = <<"1", "0", "0">>
    /\ last.temp = <<100000>>

\* The values of the "temperature: <number>" occurrences of a text that lie
\* in [-40, 130].
PlausibleValues(t) == {m \in Range(thermal_state_matches(t, 1)) : InRange(m)}

\* C20: Tier A returns the maximum of the parsed "temperature: <number>"
\* values that lie in [-40, 130], out-of-range values being ignored:
\* "temperature: 45 temperature: 52" gives 52.0.
C20_TierAMaximum ==
    (last.op = "get_wifi_module_temperature" /\ Issued("tier_a")
        /\ PlausibleValues(last.texts.a) # {})
    => /\ last.temp = <<Round1(Max(PlausibleValues(last.texts.a)))>>
       /\ last.texts.a = <<"t", "e", "m", "p", "e", "r", "a", "t", "u", "r", "e", ":",
                           " ", "4", "5", " ",
                           "t", "e", "m", "p", "e", "r", "a", "t", "u", "r", "e", ":",
                           " ", "5", "2">>
             => last.temp = <<52000>>

C20_Witness ==
    /\ last.op = "get_wifi_module_temperature"
    /\ Issued("tier_a")
    /\ Len(thermal_state_matches(last.texts.a, 1)) = 2
    /\ Cardinality(PlausibleValues(last.texts.a)) = 1
    /\ last.temp = <<52200>>

Cascade == last.op = "get_wifi_module_temperature"
Legacy == last.op = "get_wifi_module_temperature_v1_1"

\* The first "<number> C" figure of the Tier B output, <<>> when none.
FirstCelsius == celsius_search(last.texts.b, 1)

\* C21: Tier B takes the first "<number> C"-shaped figure of the tool
\* output and accepts it when it lies in [-40, 130]: with no Tier A reading
\* and the output "rf_temp: 63 C" the pipeline returns 63.0.
C21_TierBFirstFigure ==
    (Cascade /\ Issued("tier_b"))
    => /\ (FirstCelsius # <<>> /\ InRange(FirstCelsius[1]))
             => /\ last.temp = <<Round1(FirstCelsius[1])>>
                /\ ~Issued("tier_c")
       /\ (FirstCelsius # <<>> /\ ~InRange(FirstCelsius[1])) => Issued("tier_c")
       /\ last.texts.b = <<"r", "f", "_", "t", "e", "m", "p", ":", " ", "6", "3", " ", "C">>
             => last.temp = <<63000>>

C21_Witness ==
    /\ Cascade
    /\ Issued("tier_a")
    /\ last.texts.a = <<>>
    /\ last.texts.b = <<"r", "f", "_", "t", "e", "m", "p", ":", " ", "6", "3", " ", "C">>
    /\ last.temp = <<63000>>

\* A raw sensor value above 200 is in millidegrees.
Normalized(m) == IF m > MilliDegreeThreshold * Milli THEN m \div Milli ELSE m

\* C22: Tier C divides a raw value above 200 by 1000, leaves a raw value of
\* at most 200 unchanged and accepts the result only if it lies in
\* [-40, 130]; the raw value 45231 gives 45.2, in the cascade and in the
\* sysfs tier of v1.1.
C22_TierCNormalizes ==
    /\ (Cascade /\ Issued("tier_c") /\ to_float(last.texts.c) # <<>>)
          => /\ InRange(Normalized(to_float(last.texts.c)[1]))
                   => last.temp = <<Round1(Normalized(to_float(last.texts.c)[1]))>>
             /\ ~InRange(Normalized(to_float(last.texts.c)[1])) => last.temp = <<>>
             /\ last.texts.c = <<"4", "5", "2", "3", "1">> => last.temp = <<45200>>
    /\ (Legacy /\ last.texts.c = <<"1", "5", "0", "\n", "4", "5", "2", "3", "1", "\n">>)
          => last.temp = <<45200>>
    /\ (Legacy /\ last.texts.c = <<"3", "8", ".", "5", "\n">>)
          => last.temp = <<38500>>

C22_Witness ==
    /\ Cascade
    /\ ~Issued("tier_a")
    /\ last.texts.b = <<>>
    /\ last.texts.c = <<"4", "5", "2", "3", "1">>
    /\ last.temp = <<45200>>

\* C23 as stated: with only Tier C available and the raw value 9999 the
\* pipeline returns None.
C23_ImplausibleNone ==
    (Cascade /\ Issued("tier_c") /\ last.texts.c = <<"9", "9", "9", "9">>)
    => last.temp = <<>>

\* C23: with only Tier C available and the raw value 9999 the pipeline
\* returns 10.0, the value being above 200 and so read as 9.999 degrees;
\* a raw value between 130 and 200, such as 150, gives None.
C23_MillidegreesAccepted ==
    /\ (Cascade /\ Issued("tier_c") /\ last.texts.c = <<"9", "9", "9", "9">>)
          => last.temp = <<10000>>
    /\ (Cascade /\ Issued("tier_c") /\ last.texts.c = <<"1", "5", "0">>)
          => last.temp = <<>>

C23_Witness ==
    /\ Cascade
    /\ ~Issued("tier_a")
    /\ Issued("tier_c")
    /\ last.texts.b = <<>>
    /\ last.texts.c = <<"9", "9", "9", "9">>
    /\ last.temp = <<10000>>

\* C24: get_wifi_module_temperature never raises: it returns None when the
\* session cannot be opened, when the credential is rejected and when no
\* tier yields an in-range value, after a bounded number of steps.
C24_NeverRaises ==
    Cascade
    => /\ ~last.raises
       /\ last.outs[1] # "ok" => last.temp = <<>> /\ last.trace = <<"connect">>
       /\ (tier_a(last.texts.a) = <<>> /\ tier_b(last.texts.b) = <<>>
              /\ tier_c(last.texts.c) = <<>>) => last.temp = <<>>
       /\ Len(last.trace) <= 7

C24_Witness ==
    /\ Cascade
    /\ last.outs = <<"auth">>
    /\ ~last.raises
    /\ last.temp = <<>>

\* The linear transform of v1.1 with the default offset and scale.
Transform(m) == ((m - wifi_temp_offset * Milli) * wifi_temp_scale_tenths) \div 10

\* The raw value of a v1.1 procfs read that completed with status 0.
LegacyRaw == to_float(strip(last.texts.a))

\* C25: the v1.1 variant returns (raw - offset) * scale when that lies in
\* [-40, 130] (raw 58 gives 65.0), the raw value when only the raw value
\* lies in the range, and otherwise goes on to the sysfs read.
C25_LegacyTransform ==
    (Legacy /\ last.outs[1][1] = "exit0" /\ LegacyRaw # <<>>)
    => /\ InRange(Transform(LegacyRaw[1]))
             => last.temp = <<Round1(Transform(LegacyRaw[1]))>>
       /\ (~InRange(Transform(LegacyRaw[1])) /\ InRange(LegacyRaw[1]))
             => last.temp = <<Round1(LegacyRaw[1])>>
       /\ (~InRange(Transform(LegacyRaw[1])) /\ ~InRange(LegacyRaw[1]))
             => Count(last.trace, "connect") >= 2
       /\ last.texts.a = <<"5", "8", "\n">> => last.temp = <<65000>>

C25_Witness ==
    /\ Legacy
    /\ last.outs[1][1] = "exit0"
    /\ last.texts.a = <<"5", "8", "\n">>
    /\ Count(last.trace, "connect") = 1
    /\ last.temp = <<65000>>

\* The positions of the UI thread inside a reboot or shutdown handler,
\* between the override of the policy and its restore.
Overridden == {"command", "swapped", "branch", "restore"}

\* C26: a reboot or shutdown handler runs every command it issues with a
\* single attempt, and when it returns timeout and max_attempts are what
\* they were before it, after a successful and after a failed command.
C26_OverrideRestored ==
    /\ app.pc \in Overridden =>
          /\ max_attempts = SingleAttempt
          /\ timeout = app.original.timeout
          /\ \A i \in 1..Len(app.issued) :
                app.issued[i].n = SingleAttempt /\ app.issued[i].connects <= 1
    /\ last.op = "restore" =>
          /\ app.pc = "idle"
          /\ timeout = app.original.timeout
          /\ max_attempts = app.original.max_attempts

\* A handler whose command failed returns with a policy the settings page
\* had changed from the defaults.
C26_Witness ==
    /\ last.op = "restore" /\ ~last.ok
    /\ app.handler \in CompanionHandlers
    /\ timeout = 10 /\ max_attempts = 2
    /\ last.pre.max_attempts = SingleAttempt

\* The calls that probe or read the companion in the background.
PollingOps ==
    {"get_wifi_module_temperature", "refresh_connection_status",
     "periodic_connection_check"}

\* C27: no background temperature read and no connectivity probe runs
\* while a reboot or shutdown handler has the policy overridden or while
\* execute_command_all has the ActiveTarget swapped.
C27_PollingSerialized ==
    (last.op \in PollingOps /\ last.value # "skipped")
    => app.pc \notin Overridden

\* C28: the timeout and max_attempts the settings page accepted are the
\* ones the executor has after the application is started again.
C28_PolicyPersisted ==
    (last.op = "__init__" /\ app.accepted # <<>>)
    => /\ timeout = app.accepted[1].timeout
       /\ max_attempts = app.accepted[1].max_attempts

\* C29: in every reachable state, whatever the settings page was given and
\* wherever a connectivity check or a reboot or shutdown handler stands,
\* timeout and max_attempts are integers greater than zero.
C29_PolicyPositive ==
    /\ timeout \in Nat /\ timeout > 0
    /\ max_attempts \in Nat /\ max_attempts > 0

\* The settings page took the timeout and then rejected the attempts.
C29_Witness ==
    /\ last.op = "apply_connection_settings"
    /\ last.n = 2
    /\ timeout = 10 /\ last.pre.timeout = DefaultTimeout
    /\ max_attempts = last.pre.max_attempts

CheckOps == {"refresh_connection_status", "periodic_connection_check"}

\* The attempts a command of n attempts makes on the outcomes outs: up to
\* the first one on which the command completes.
AttemptsMade(outs, n) ==
    IF \E i \in 1..n : outs[i] \in Completed
    THEN CHOOSE i \in 1..n :
            outs[i] \in Completed /\ \A j \in 1..(i - 1) : outs[j] \notin Completed
    ELSE n

\* C30: a connectivity check restarts the tunnel exactly once when
\* test_connection returns None and not at all when it returns an endpoint
\* or when the check returns at its guard; the restart is one
\* execute_relay_command of the elevated service restart, on the relay's
\* host and account, with the attempts and sleeps of the executor's policy.
C30_RestartOncePerFailedCheck ==
    (last.op \in CheckOps)
    => /\ Len(last.sub) = (IF last.value = None THEN 1 ELSE 0)
       /\ \A i \in 1..Len(last.sub) :
             /\ last.sub[i].op = "execute_relay_command"
             /\ last.sub[i].command = tunnel_restart_command
             /\ startswith(last.sub[i].command, sudo_prefix)
             /\ last.sub[i].cmd = Piped(relay_password, tunnel_restart_command)
             /\ last.sub[i].conn.host = relay_ip
             /\ last.sub[i].conn.username = relay_username
             /\ last.sub[i].n = last.pre.max_attempts
             /\ SleepsOnlyBetween(last.sub[i].trace,
                                  AttemptsMade(last.sub[i].outs, last.sub[i].n))
             /\ Count(last.sub[i].trace, "exec") <= 1

\* A periodic check with a policy of two attempts finds no endpoint and
\* restarts the tunnel, which fails on both attempts.
C30_Witness ==
    /\ last.op = "periodic_connection_check"
    /\ last.value = None
    /\ Len(last.sub) = 1
    /\ last.sub[1].n = 2
    /\ ~last.sub[1].ok
    /\ Count(last.sub[1].trace, "connect") = 2

\* The sessions of a call, followed through its trace: the k-th connect
\* establishes a connection unless it met a transport failure (a rejected
\* credential is rejected on an established connection), and a close
\* releases one.  `open` is the number still established, `peak` the most
\* at one time.
RECURSIVE Sessions(_, _, _, _, _, _)
Sessions(trace, outs, i, k, open, peak) ==
    IF i > Len(trace) THEN [open |-> open, peak |-> peak]
    ELSE IF trace[i] = "connect"
    THEN IF outs[k + 1] # "transport"
         THEN Sessions(trace, outs, i + 1, k + 1, open + 1,
                       IF open + 1 > peak THEN open + 1 ELSE peak)
         ELSE Sessions(trace, outs, i + 1, k + 1, open, peak)
    ELSE IF trace[i] = "close"
    THEN Sessions(trace, outs, i + 1, k, IF open > 0 THEN open - 1 ELSE 0, peak)
    ELSE Sessions(trace, outs, i + 1, k, open, peak)

Scoped(w) == w.peak <= 1 /\ w.open = 0

\* C32: a call of execute_command, execute_command_capture or
\* execute_relay_command has at most one session open at any time and none
\* when it returns, whatever its attempts met.
C32_SessionsClosed ==
    (last.op \in ExecOps)
    => Scoped(Sessions(last.trace, last.outs, 1, 0, 0, 0))

\* The events of the attempt that starts at index i of a trace: up to the
\* next connect.
RECURSIVE AttemptEnd(_, _)
AttemptEnd(trace, i) ==
    IF i > Len(trace) \/ trace[i] = "connect" THEN i ELSE AttemptEnd(trace, i + 1)

\* e occurs in trace[i..j-1] and a close follows it there.
ReadThenClosed(trace, i, j, e) ==
    \E x \in i..(j - 1) :
        /\ trace[x] = e
        /\ \E y \in (x + 1)..(j - 1) : trace[y] = "close"

\* C33: on every attempt on which the remote command completes, the exit
\* status, stdout and stderr are read before the session is closed, in
\* the boolean methods as in the capture method.
C33_StreamsRead ==
    (last.op \in ExecOps)
    => \A i \in 1..Len(last.trace) :
          (last.trace[i] = "exec")
          => /\ ReadThenClosed(last.trace, i, AttemptEnd(last.trace, i), "recv_exit")
             /\ ReadThenClosed(last.trace, i, AttemptEnd(last.trace, i), "read_stdout")
             /\ ReadThenClosed(last.trace, i, AttemptEnd(last.trace, i), "read_stderr")

\* C34: one call of get_wifi_module_temperature makes a single connection
\* attempt whatever max_attempts is, issues the interface resolution and
\* every tier's command on that session, and leaves no session open when
\* it returns, with a reading, with None or after an exception.
C34_OneSession ==
    Cascade
    => /\ Count(last.trace, "connect") = 1
       /\ last.trace[1] = "connect"
       /\ Count(last.trace, "close") <= 1
       /\ \A x \in 1..Len(last.trace) :
             (last.trace[x] = "close") => x = Len(last.trace)
       /\ Scoped(Sessions(last.trace, last.outs, 1, 0, 0, 0))

\* The remote reads of the cascade, in the order of their deliveries.
ReadEvents == <<"read_wfb_nics", "read_proc_ls", "tier_a", "tier_b", "tier_c">>

\* The read issued at index x of the trace raised.
ReadRaised(x) ==
    \E k \in 1..Len(ReadEvents) :
        last.trace[x] = ReadEvents[k] /\ last.raised[k]

\* C40: when a remote read of the cascade raises, the call returns None
\* at once: no later command is issued and the session is closed.
C40_RaiseEndsCall ==
    Cascade
    => \A x \in 1..Len(last.trace) :
          ReadRaised(x)
          => /\ last.temp = <<>>
             /\ ~last.raises
             /\ Len(last.trace) = x + 1
             /\ last.trace[x + 1] = "close"

C40_Witness ==
    /\ Cascade
    /\ last.trace = <<"connect", "read_wfb_nics", "tier_a", "close">>
    /\ last.raised[3]
    /\ ~last.raised[4] /\ ~last.raised[5]
    /\ last.temp = <<>>

\* A step of the running process: any step but the start of a new one.
SameProcess == last'.op # "__init__"

\* C35: once a reboot or shutdown handler was invoked the flag
\* is_rebooting_or_shutting_down stays raised for the rest of the process,
\* every later refresh or periodic check returns without probing, and no
\* timer of the periodic check is armed again.
C35_FlagLatched ==
    [][(app.is_rebooting_or_shutting_down /\ SameProcess)
       => /\ app'.is_rebooting_or_shutting_down
          /\ (last'.op \in CheckOps)
             => (last'.value = "skipped" /\ last'.probed = <<>>
                 /\ last'.trace = <<>> /\ last'.sub = <<>>)
          /\ app'.timers <= app.timers]_vars

C35_Witness ==
    /\ app.is_rebooting_or_shutting_down
    /\ app.pc = "idle"
    /\ app.connection_check_enabled
    /\ last.op = "periodic_connection_check"
    /\ last.value = "skipped"

\* C36: at most one periodic check is pending on the single-shot timer at
\* any time, also after the settings are applied while one is scheduled.
C36_OneChain == app.timers <= 1

\* C39: when apply_connection_settings rejects its input no setting is
\* changed: not the enabled flag, the interval, the timeout or
\* max_attempts, not the settings in memory and not the settings file.
C39_RejectionChangesNothing ==
    [][(last'.op = "apply_connection_settings" /\ ~last'.ok)
       => /\ app'.connection_check_enabled = app.connection_check_enabled
          /\ app'.connection_check_interval = app.connection_check_interval
          /\ timeout' = timeout
          /\ max_attempts' = max_attempts
          /\ ssh_config' = ssh_config
          /\ app'.file = app.file]_vars

\* C38: after apply_ssh_config the ActiveTarget is the new primary host
\* and port, and the secondary endpoint test_connection and
\* execute_command_all use is the newly configured one.
C38_TargetsFollowSettings ==
    /\ (last.op = "apply_ssh_config")
       => /\ current_ip = ssh_config.primary_ip
          /\ current_port = ssh_config.primary_port
          /\ secondary_ip = ssh_config.secondary_ip
          /\ secondary_port = ssh_config.secondary_port
    /\ (last.op = "refresh_connection_status" /\ Len(last.probed) = 2)
       => last.probed[2] = <<ssh_config.secondary_ip, ssh_config.secondary_port>>

\* The poller holds the settings of the window.
PollerFollowsWindow ==
    /\ app'.wifi_temp_poller._enabled = app'.wifi_temp_enabled
    /\ app'.wifi_temp_poller._interval_ms
           = clamp_interval_ms(app'.wifi_temp_poll_ms)

\* A temperature read is issued with the flag cleared only in the round
\* that was under way when the flag was cleared.
ReadOnlyWhileEnabled ==
    (app.wifi_temp_poller.pc = "read" /\ app'.wifi_temp_poller.pc = "wait"
        /\ ~app.wifi_temp_poller._enabled)
    => app.wifi_temp_poller.cycles = 0

\* A round that begins with the flag cleared goes to its wait.
DisabledRoundWaits ==
    (app.wifi_temp_poller.pc = "cycle" /\ app'.wifi_temp_poller.pc # "cycle"
        /\ ~app.wifi_temp_poller._enabled)
    => app'.wifi_temp_poller.pc = "wait"

\* A wait takes the interval as it is when the wait begins and keeps it.
WaitUsesInterval ==
    /\ (app.wifi_temp_poller.pc = "wait" /\ app'.wifi_temp_poller.pc = "sleep")
       => app'.wifi_temp_poller.remaining = app.wifi_temp_poller._interval_ms
    /\ (app.wifi_temp_poller.pc = "sleep" /\ app'.wifi_temp_poller.pc = "cycle")
       => last'.n = app.wifi_temp_poller.remaining

\* A periodic check that finds the check disabled probes nothing and arms
\* no timer; one that runs arms one timer with the interval of that moment,
\* and nothing else arms one.
PeriodicRearm ==
    /\ (last'.op = "periodic_connection_check" /\ ~app.connection_check_enabled)
       => /\ last'.value = "skipped"
          /\ last'.probed = <<>>
          /\ app'.timers <= app.timers
    /\ (last'.op = "periodic_connection_check" /\ last'.value # "skipped")
       => /\ app.connection_check_enabled
          /\ app'.singleShot = <<app.connection_check_interval>>
          /\ app'.timers = app.timers + (IF app.pc = "periodic" THEN 1 ELSE 0)
    /\ (app'.timers > app.timers)
       => (last'.op = "periodic_connection_check" /\ last'.value # "skipped")

\* C31: the polling loops read their settings at the start of each round:
\* with the enabled flag cleared no probe or temperature read is issued
\* from the next round on, the next wait uses the interval as changed, and
\* the periodic check is armed again only by a round that ran, never by
\* one that found the check disabled.
C31_SettingsReadEachCycle ==
    [][/\ PollerFollowsWindow
       /\ ReadOnlyWhileEnabled
       /\ DisabledRoundWaits
       /\ WaitUsesInterval
       /\ PeriodicRearm]_vars

C31_Witness ==
    /\ ~app.wifi_temp_poller._enabled
    /\ app.wifi_temp_poller.cycles = 1
    /\ app.wifi_temp_poller.pc = "sleep"
    /\ app.wifi_temp_poller.remaining = 1000
    /\ ~app.connection_check_enabled
    /\ app.singleShot = <<5000>>
    /\ app.timers = 0
    /\ last.op = "periodic_connection_check"
    /\ last.value = "skipped"

\* C37: at most one WifiTempWorker runs at any time: update_wifi_temp
\* starts none while _wifi_temp_busy is set, the flag is set when a worker
\* is started and cleared only when the worker has finished.
C37_OneWorker ==
    [][/\ app'.workers <= 1
       /\ (app'.workers = 1) => app'._wifi_temp_busy
       /\ (last'.op = "update_wifi_temp" /\ app._wifi_temp_busy)
          => (app'.workers = app.workers /\ last'.value = "skipped")
       /\ (app'.workers > app.workers) => (~app._wifi_temp_busy /\ app'._wifi_temp_busy)
       /\ (app._wifi_temp_busy /\ ~app'._wifi_temp_busy)
          => (last'.op = "_on_wifi_temp_finished" /\ app.workers = 0
              /\ app.finished = 1)]_vars

C37_Witness ==
    /\ app._wifi_temp_busy
    /\ app.workers = 0
    /\ app.finished = 1
    /\ last.op = "update_wifi_temp"
    /\ last.value = "skipped"
====
